---- MODULE Spec2Model ----
(***************************************************************************)
(* A model of the GAME SDK client core: the Function descriptor            *)
(* (custom_types.py), the retrying transport client (api_client.py), the   *)
(* task-driven Agent (agentv2/autonomous_agent.py), and the construction   *)
(* and compilation of the Agent and the Worker (agent.py, worker.py,       *)
(* utils.py), the drivers of both, the Session, the handling of HTTP       *)
(* responses, and the export of Function definitions.                      *)
(*                                                                         *)
(* Each component has its own variables and its own specification; a       *)
(* specification moves one component and leaves the others in their        *)
(* initial state.                                                          *)
(*                                                                         *)
(* Encodings.  Python's None is the token None.  A text is a sequence of   *)
(* tokens, so that concatenation is \o and "contains" is "is a contiguous  *)
(* subsequence".  An argument value is a non-empty sequence of strings:    *)
(* <<s>> is the scalar s, and <<k>> \o v is the one-key mapping {k: v}.    *)
(***************************************************************************)
EXTENDS Integers, Sequences, FiniteSets, TLC

VARIABLES
    fnCall,      \* the keyword arguments of the last Function.execute call
    fnOutcome,   \* how that call ended
    fnPrev       \* the call before it and its outcome, when the last call re-issued it

fnVars == <<fnCall, fnOutcome, fnPrev>>

VARIABLES
    rqMethod,    \* the HTTP method of the request ("" when none is under way)
    rqScript,    \* what the server answers to the 1st, 2nd, ... attempt of the request
    rqCalls,     \* the answers to the HTTP requests sent so far (one per attempt)
    rqPc,        \* "idle", "attempting" (inside make_request) or "done"
    rqOutcome    \* what make_request gave its caller

rqVars == <<rqMethod, rqScript, rqCalls, rqPc, rqOutcome>>

VARIABLES
    v2State,     \* the task-driven Agent's state: Idle, TaskPending, TaskRunning(result)
    v2Last,      \* its last step: the state before, the planner's answer, the outcome
    v2Run        \* its steps so far: what the planner answered, what was executed and reported

v2Vars == <<v2State, v2Last, v2Run>>

VARIABLES
    agent,       \* the Agent object of agent.py (constructed FALSE: none yet)
    worker,      \* the Worker object of worker.py (constructed FALSE: none yet)
    remoteLog,   \* the requests sent to the remote planner by both, in order
    last,        \* the last operation on either: its inputs, outcome and effects
    runPc        \* Worker.run and Agent.run: "none", "running", "returned" or "raised"

ownerVars == <<agent, worker, remoteLog, last, runPc>>

VARIABLES
    session,     \* a Session of agent.py: its id and its function_result
    uuids,       \* the number of uuid4() values drawn so far
    sessLast     \* the last operation on the Session and what it held before

sessVars == <<session, uuids, sessLast>>

VARIABLE
    httpLast     \* the last HTTP response a planner client got, and what it made of it

VARIABLE
    exported     \* the last export of Function definitions: what was exported, and the result

VARIABLE
    resultSent   \* two FunctionResults and the result fields a planner request carries for each

VARIABLE
    wagent       \* a WorkerAgent: its position in send_message, its requests and their answers

None == "<None>"

----------------------------------------------------------------------------
(* Bounds of the model *)

\* Depth of nesting of the mappings among the argument values.
MaxDepth == 2

\* Number of answers the server has scripted for one request.
ScriptLen == 4

\* Number of requests the Agent and the Worker send to the remote planner.
MaxRemoteCalls == 2

\* Number of requests a constructed Worker and Agent send while they are driven.
MaxDriverCalls == 3

\* Number of uuid4() values drawn for the ids of a Session.
\* The Functions of an action space whose schema is sent.
MaxSpace == 2

\* The steps of the task-driven Agent whose history is kept.
MaxV2Steps == 3

MaxUuids == 4

----------------------------------------------------------------------------
(* Texts *)

IsPrefixAt(m, s, i) == \A j \in 1..Len(m) : s[i + j - 1] = m[j]

\* Python's `m in s` for strings.
Contains(s, m) == \E i \in 1..(Len(s) - Len(m) + 1) : IsPrefixAt(m, s, i)

----------------------------------------------------------------------------
(* Argument values *)

Scalars == {"hi", "Paris"}
Keys == {"value", "other"}

RECURSIVE ValuesOfDepth(_)
ValuesOfDepth(d) ==
    IF d = 0 THEN {<<s>> : s \in Scalars}
    ELSE {<<k>> \o v : k \in Keys, v \in ValuesOfDepth(d - 1)}

Values == UNION {ValuesOfDepth(d) : d \in 0..MaxDepth}

\* isinstance(v, dict)
IsDict(v) == Len(v) > 1

\* {"value": X}
Wrap(x) == <<"value">> \o x

ArgNames == {"text", "city"}

\* The raw `args` mappings: any subset of the names, each with any value.
ArgDicts == UNION {[s -> Values] : s \in SUBSET ArgNames}

EmptyDict == [n \in {} |-> <<"">>]

----------------------------------------------------------------------------
(* FunctionResult, custom_types.py *)

DONE == "done"
FAILED == "failed"
FunctionResultStatus == {DONE, FAILED}

NoResult == [action_id |-> None, action_status |-> "none",
             feedback_message |-> <<>>, info |-> EmptyDict]

\* What a call can end in: a returned FunctionResult, or a raised exception.
\* `invoked` and `received` record the keyword arguments the executable was
\* called with.
Returned(result, invoked, received) ==
    [raised |-> FALSE, exc |-> "", result |-> result,
     invoked |-> invoked, received |-> received]

Raised(exc, invoked, received) ==
    [raised |-> TRUE, exc |-> exc, result |-> NoResult,
     invoked |-> invoked, received |-> received]

\* No call has ended yet.
NoOutcome == [raised |-> FALSE, exc |-> "none", result |-> NoResult,
              invoked |-> FALSE, received |-> EmptyDict]

\* pydantic's validation of FunctionResult(action_id: str,
\* action_status: FunctionResultStatus, ...): TRUE when the model is built.
FunctionResultValid(action_id, action_status) ==
    /\ action_id # None
    /\ action_status \in FunctionResultStatus

----------------------------------------------------------------------------
(* Executables: the capability-specific procedures of the tests and the   *)
(* default one.  Each maps keyword arguments to (status, feedback, info),  *)
(* to a malformed return value, or to a raised exception with a message.   *)

ExcMessages == {<<>>, <<"bad city">>, <<"Test", " ", "error">>}

Executables ==
    {[kind |-> "default", msg |-> <<>>],
     [kind |-> "echo", msg |-> <<>>],
     [kind |-> "test_fn", msg |-> <<>>],
     [kind |-> "failing", msg |-> <<"no", " ", "route">>],
     [kind |-> "bad_status", msg |-> <<>>],
     [kind |-> "bad_tuple", msg |-> <<>>]}
    \cup {[kind |-> "raises", msg |-> m] : m \in ExcMessages}

ExeReturn(status, feedback, info) ==
    [raised |-> FALSE, msg |-> <<>>, unpacks |-> TRUE,
     status |-> status, feedback |-> feedback, info |-> info]

ExeRaise(msg) ==
    [raised |-> TRUE, msg |-> msg, unpacks |-> FALSE,
     status |-> "none", feedback |-> <<>>, info |-> EmptyDict]

ExeMalformed ==
    [raised |-> FALSE, msg |-> <<>>, unpacks |-> FALSE,
     status |-> "none", feedback |-> <<>>, info |-> EmptyDict]

\* executable(**kwargs)
CallExecutable(exe, kwargs) ==
    CASE exe.kind = "default" ->
            ExeReturn(DONE, <<"Default implementation - no action taken">>, EmptyDict)
      [] exe.kind = "echo" ->
            \* echo(text) -> (DONE, "ok:" + text, {"text": text})
            IF DOMAIN kwargs # {"text"}
            THEN ExeRaise(<<"echo() got unexpected or missing keyword arguments">>)
            ELSE IF IsDict(kwargs["text"])
            THEN ExeRaise(<<"can only concatenate str (not \"dict\") to str">>)
            ELSE ExeReturn(DONE, <<"ok:">> \o kwargs["text"], kwargs)
      [] exe.kind = "test_fn" ->
            ExeReturn(DONE, <<"Success">>, kwargs)
      [] exe.kind = "failing" ->
            ExeReturn(FAILED, exe.msg, EmptyDict)
      [] exe.kind = "bad_status" ->
            ExeReturn("pending", <<"later">>, EmptyDict)
      [] exe.kind = "bad_tuple" ->
            ExeMalformed
      [] exe.kind = "raises" ->
            ExeRaise(exe.msg)

----------------------------------------------------------------------------
(* Function.execute, custom_types.py *)

\* ProcessArg without the unwrapping.
ProcessArg_NoUnwrap(arg_value) == arg_value

\* One level of unwrapping of a raw argument value.
ProcessArg(arg_value) ==
    IF IsDict(arg_value) /\ Head(arg_value) = "value"
    THEN Tail(arg_value)
    ELSE arg_value

ProcessArgs(args) == [arg_name \in DOMAIN args |-> ProcessArg(args[arg_name])]

\* str(e) of the exception the try block ends in.
ErrorText(msg) == <<"Error executing function: ">> \o msg

\* The except branch with an action_id of its own in place of fn_id.
ExecuteFailed_EmptyId(fn_id, msg, invoked, received) ==
    Returned([action_id |-> "", action_status |-> FAILED,
              feedback_message |-> ErrorText(msg), info |-> EmptyDict],
             invoked, received)

\* The except branch: FunctionResult(action_id=fn_id, FAILED, ...) is built
\* inside the handler, so its validation error is not caught.
ExecuteFailed(fn_id, msg, invoked, received) ==
    IF FunctionResultValid(fn_id, FAILED)
    THEN Returned([action_id |-> fn_id, action_status |-> FAILED,
                   feedback_message |-> ErrorText(msg), info |-> EmptyDict],
                  invoked, received)
    ELSE Raised("ValidationError", invoked, received)

\* kw is the call's keywords: fn_id (None when absent) and args
\* (args_kind "absent": the default {}; "none": a value without items()).
Execute(exe, kw) ==
    LET fn_id == kw.fn_id
        args == IF kw.args_kind = "dict" THEN kw.args ELSE EmptyDict
    IN  IF kw.args_kind = "none"
        THEN ExecuteFailed(fn_id, <<"'NoneType' object has no attribute 'items'">>,
                           FALSE, EmptyDict)
        ELSE LET processed_args == ProcessArgs(args)
                 r == CallExecutable(exe, processed_args)
             IN  IF r.raised
                 THEN ExecuteFailed(fn_id, r.msg, TRUE, processed_args)
                 ELSE IF ~r.unpacks
                 THEN ExecuteFailed(fn_id, <<"not enough values to unpack">>,
                                    TRUE, processed_args)
                 ELSE IF ~FunctionResultValid(fn_id, r.status)
                 THEN ExecuteFailed(fn_id, <<"validation error for FunctionResult">>,
                                    TRUE, processed_args)
                 ELSE Returned([action_id |-> fn_id, action_status |-> r.status,
                                feedback_message |-> r.feedback, info |-> r.info],
                               TRUE, processed_args)

----------------------------------------------------------------------------
(* GameAPIClient.make_request and its retry decorator, api_client.py *)

\* stop_after_attempt(3)
MaxAttempts == 3

\* What one HTTP request can meet: a 2xx answer with a JSON body, an error
\* status, or a failure of the transport (requests.RequestException).
OkBodies == {"data1", "data2"}
ErrorStatuses == {401, 404, 422, 429, 500, 503}
TransportFailures == {"ConnectionError", "Timeout"}

Answer(kind, status, body) == [kind |-> kind, status |-> status, body |-> body]

Answers ==
    {Answer("http", 200, b) : b \in OkBodies}
    \cup {Answer("http", st, "error") : st \in ErrorStatuses}
    \cup {Answer(f, 0, "") : f \in TransportFailures}

IsSuccess(a) == a.kind = "http" /\ a.status = 200

\* The failures the retry policy is meant for: connection errors, timeouts,
\* 5xx and 429.
IsTransient(a) ==
    \/ a.kind \in TransportFailures
    \/ a.kind = "http" /\ (a.status >= 500 \/ a.status = 429)

\* One run of the body of make_request against answer a: the JSON body
\* returned, or the exception raised.
AttemptReturn(body) == [raised |-> FALSE, exc |-> "", value |-> body, cause |-> ""]
AttemptRaise(exc) == [raised |-> TRUE, exc |-> exc, value |-> "", cause |-> ""]

MakeRequestBody(a) ==
    IF a.kind # "http"
    THEN AttemptRaise("APIError")            \* except RequestException
    ELSE IF a.status < 400
    THEN AttemptReturn(a.body)               \* raise_for_status passes
    ELSE IF a.status = 401
    THEN AttemptRaise("AuthenticationError")
    ELSE IF a.status = 422
    THEN AttemptRaise("ValidationError")
    ELSE AttemptRaise("APIError")

\* should_retry giving up on every exception.
should_retry_Never(exc) == FALSE

\* should_retry without its first test: AuthenticationError is an APIError.
should_retry_NoExclusion(exc) ==
    exc \in {"APIError", "AuthenticationError", "RequestException"}

\* GameAPIClient.should_retry
should_retry(exc) ==
    IF exc \in {"AuthenticationError", "ValidationError"}
    THEN FALSE
    ELSE exc \in {"APIError", "RequestException"}

\* The decorator without its stop condition.
RetryDecision_NoStop(r, n) ==
    [again |-> r.raised /\ r.exc \in {"APIError", "RequestException"},
     outcome |-> r]

\* The decorator's verdict after attempt number n ended in r: the call is
\* over with r, goes on with another attempt, or is over with RetryError
\* (the decorator is built without reraise, so the last exception is
\* wrapped, not raised again).
RetryDecision(r, n) ==
    IF ~(r.raised /\ should_retry(r.exc))
    THEN [again |-> FALSE, outcome |-> r]
    ELSE IF n >= MaxAttempts
    THEN [again |-> FALSE,
          outcome |-> [raised |-> TRUE, exc |-> "RetryError", value |-> "",
                       cause |-> r.exc]]
    ELSE [again |-> TRUE, outcome |-> r]

Scripts == [1..ScriptLen -> Answers]

NoRequestOutcome == [raised |-> FALSE, exc |-> "none", value |-> "", cause |-> ""]

\* client.get, client.post, client.put, client.delete
Methods == {"GET", "POST", "PUT", "DELETE"}

RqIdle ==
    /\ rqMethod = ""
    /\ rqScript = <<>>
    /\ rqCalls = <<>>
    /\ rqPc = "idle"
    /\ rqOutcome = NoRequestOutcome

\* client.get / post / put / delete: a call of make_request begins; the
\* server's answers to its attempts are fixed from here on.
MakeRequest ==
    /\ rqPc = "idle"
    /\ rqMethod' \in Methods
    /\ rqScript' \in Scripts
    /\ rqCalls' = <<>>
    /\ rqPc' = "attempting"
    /\ rqOutcome' = NoRequestOutcome

\* One attempt: the HTTP request is sent, the body of make_request runs on
\* the answer, and the decorator decides.
Attempt ==
    /\ rqPc = "attempting"
    /\ Len(rqCalls) < Len(rqScript)
    /\ LET a == rqScript[Len(rqCalls) + 1]
           d == RetryDecision(MakeRequestBody(a), Len(rqCalls) + 1)
       IN  /\ rqCalls' = Append(rqCalls, a)
           /\ rqPc' = IF d.again THEN "attempting" ELSE "done"
           /\ rqOutcome' = IF d.again THEN rqOutcome ELSE d.outcome
    /\ UNCHANGED <<rqMethod, rqScript>>

\* The caller has the outcome; the client is ready for its next request.
RequestOver ==
    /\ rqPc = "done"
    /\ rqMethod' = ""
    /\ rqScript' = <<>>
    /\ rqCalls' = <<>>
    /\ rqPc' = "idle"
    /\ rqOutcome' = NoRequestOutcome

----------------------------------------------------------------------------
(* Function and Function.get_function_def, custom_types.py *)

\* Argument(name, description, type, optional)
Argument(name) ==
    [name |-> name, description |-> name \o " of the call", type |-> "string",
     optional |-> FALSE]

ArgumentLists ==
    {<<>>, <<Argument("city")>>, <<Argument("text")>>,
     <<Argument("city"), Argument("text")>>}

\* The fields of a Function.
FunctionFields == {"fn_name", "fn_description", "args", "hint", "executable"}

Functions ==
    [fn_name : {"echo", "get_weather", "crash"},
     fn_description : {"Test function", "Get weather for a city"},
     args : ArgumentLists,
     hint : {None, "Call it once"},
     executable : {[kind |-> "default", msg |-> <<>>], [kind |-> "echo", msg |-> <<>>],
                   [kind |-> "raises", msg |-> <<"bad city">>]}]

\* model_dump() with nothing excluded.
get_function_def_Whole(f) == f

\* self.model_dump(exclude={'executable'})
get_function_def(f) == [k \in DOMAIN f \ {"executable"} |-> f[k]]

\* [f.get_function_def() for f in action_space]: worker.py 131,
\* autonomous_agent_client.py 94, 119, 151, v2/worker/client.py 72, 125
ActionSpaceSchema(action_space) ==
    [i \in 1..Len(action_space) |-> get_function_def(action_space[i])]

\* The action spaces whose schema is sent: lists of Functions.
SpaceFunctions ==
    {f \in Functions : f.fn_description = "Test function" /\ f.hint = None
                        /\ Len(f.args) = 1 /\ f.args[1].name = "text"}

ActionSpaces == UNION {[1..n -> SpaceFunctions] : n \in 0..MaxSpace}

SchemaSenders ==
    {"Worker._get_action", "AutonomousAgentClient.next_task",
     "AutonomousAgentClient.start_task",
     "AutonomousAgentClient.report_function_result"}

NoFunction ==
    [fn_name |-> "", fn_description |-> "", args |-> <<>>, hint |-> None,
     executable |-> [kind |-> "none", msg |-> <<>>]]

NoExport ==
    [op |-> "", function |-> NoFunction, first |-> <<>>, second |-> <<>>,
     action_space |-> <<>>, schema |-> <<>>]

\* Nothing is exported (the other specifications leave it so).
ExportIdle == exported = NoExport

\* The Function, or the action space, of one export, drawn from the bounded sets.
ExportInit ==
    exported \in {[NoExport EXCEPT !.function = f] : f \in Functions}
                 \cup {[NoExport EXCEPT !.action_space = a] : a \in ActionSpaces}

\* fn.get_function_def(), twice on the same Function
FunctionDefTwice ==
    /\ exported.op = "" /\ exported.function # NoFunction
    /\ exported' = [exported EXCEPT !.op = "get_function_def",
                                    !.first = get_function_def(exported.function),
                                    !.second = get_function_def(exported.function)]

\* a request that carries the schema of an action space is built
SchemaSent ==
    /\ exported.op = "" /\ exported.function = NoFunction
    /\ \E by \in SchemaSenders :
        exported' = [exported EXCEPT !.op = by,
                                    !.schema = ActionSpaceSchema(exported.action_space)]

----------------------------------------------------------------------------
(* The task-driven Agent, agentv2/autonomous_agent.py *)

IdleState == [tag |-> "Idle", result |-> NoResult]
TaskPendingState == [tag |-> "TaskPending", result |-> NoResult]
TaskRunningState(result) == [tag |-> "TaskRunning", result |-> result]

\* self.action_space: fn_name -> the Function's executable.
V2ActionSpace ==
    [echo |-> [kind |-> "echo", msg |-> <<>>],
     get_weather |-> [kind |-> "test_fn", msg |-> <<>>],
     crash |-> [kind |-> "raises", msg |-> <<"bad city">>]]

\* What the planner answers to a step: a non-200 status, or a body whose
\* data carries one of the response types.
V2FnNames == {"echo", "get_weather", "crash", "missing"}
V2FnIds == {"a1", "a2"}
V2FnArguments ==
    {EmptyDict, [text |-> <<"hi">>], [text |-> <<"value", "hi">>],
     [city |-> <<"Paris">>]}

V2Response(type, fn_id, fn_name, fn_arguments) ==
    [type |-> type, fn_id |-> fn_id, fn_name |-> fn_name,
     fn_arguments |-> fn_arguments]

V2Responses ==
    {V2Response(t, "", "", EmptyDict) :
        t \in {"http_error", "start_task", "finish_task", "step_failure"}}
    \cup {V2Response("call_function", i, n, a) :
            i \in V2FnIds, n \in V2FnNames, a \in V2FnArguments}

\* How a step ends: the new state, "returned" or the exception that left
\* step(), and whether a Function was executed.
V2StepEnd(state, outcome, executed) ==
    [state |-> state, outcome |-> outcome, executed |-> executed, out |-> NoOutcome]

\* A caught StepFailedException that also resets the Agent to Idle.
StepFailedCaught_Resets(state) == V2StepEnd(IdleState, "returned", FALSE)

\* except StepFailedException: print("Step failed")
StepFailedCaught(state) == V2StepEnd(state, "returned", FALSE)

\* _handle_task_execution_response that keeps the task on a finish_task.
HandleTaskExecutionResponse_FinishKeepsTask(state, response) ==
    CASE response.type = "call_function" ->
            IF response.fn_name \notin DOMAIN V2ActionSpace
            THEN V2StepEnd(state, "KeyError", FALSE)
            ELSE LET r == Execute(V2ActionSpace[response.fn_name],
                                  [fn_id |-> response.fn_id, args_kind |-> "dict",
                                   args |-> response.fn_arguments])
                 IN  IF r.raised
                     THEN [V2StepEnd(state, r.exc, TRUE) EXCEPT !.out = r]
                     ELSE [V2StepEnd(TaskRunningState(r.result), "returned", TRUE)
                              EXCEPT !.out = r]
      [] response.type = "finish_task" ->
            V2StepEnd(state, "returned", FALSE)
      [] response.type = "step_failure" ->
            StepFailedCaught(state)

\* Agent._handle_task_execution_response
HandleTaskExecutionResponse(state, response) ==
    CASE response.type = "call_function" ->
            IF response.fn_name \notin DOMAIN V2ActionSpace
            THEN V2StepEnd(state, "KeyError", FALSE)
            ELSE LET r == Execute(V2ActionSpace[response.fn_name],
                                  [fn_id |-> response.fn_id, args_kind |-> "dict",
                                   args |-> response.fn_arguments])
                 IN  IF r.raised
                     THEN [V2StepEnd(state, r.exc, TRUE) EXCEPT !.out = r]
                     ELSE [V2StepEnd(TaskRunningState(r.result), "returned", TRUE)
                              EXCEPT !.out = r]
      [] response.type = "finish_task" ->
            V2StepEnd(IdleState, "returned", FALSE)
      [] response.type = "step_failure" ->
            StepFailedCaught(state)

\* function_result.model_dump(exclude={"info"})
V2Report(result) == [k \in DOMAIN result \ {"info"} |-> result[k]]

\* A report_function_result that carries no result.
V2RequestResult_Empty(state) == V2Report(NoResult)

\* The function_result a step's request carries: only
\* report_function_result has one, self.state.result.
V2RequestResult(state) ==
    IF state.tag = "TaskRunning" THEN V2Report(state.result) ELSE V2Report(NoResult)

\* The request a step sends, by the state it starts in.
V2Request(state) ==
    CASE state.tag = "Idle" -> "next_task"
      [] state.tag = "TaskPending" -> "start_task"
      [] state.tag = "TaskRunning" -> "report_function_result"

\* step() that gives the task up when the client call raises.
V2Step_ErrorResetsToIdle(state, response) ==
    IF response.type = "http_error"
    THEN V2StepEnd(IdleState, "ValueError", FALSE)
    ELSE IF state.tag = "Idle"
    THEN CASE response.type = "start_task" ->
                V2StepEnd(TaskPendingState, "returned", FALSE)
           [] response.type = "step_failure" ->
                StepFailedCaught(state)
           [] OTHER ->
                V2StepEnd(state, "ValidationError", FALSE)
    ELSE IF response.type = "start_task"
    THEN V2StepEnd(state, "ValidationError", FALSE)
    ELSE HandleTaskExecutionResponse(state, response)

\* step() that handles a call_function or finish_task answer to next_task.
V2Step_HandlesAllWhenIdle(state, response) ==
    IF response.type = "http_error"
    THEN V2StepEnd(state, "ValueError", FALSE)
    ELSE IF response.type = "start_task"
    THEN IF state.tag = "Idle" THEN V2StepEnd(TaskPendingState, "returned", FALSE)
         ELSE V2StepEnd(state, "ValidationError", FALSE)
    ELSE HandleTaskExecutionResponse(state, response)

\* Agent.step, with the client call it makes: a non-200 answer raises
\* ValueError, an answer outside the call's response types fails validation.
V2Step(state, response) ==
    IF response.type = "http_error"
    THEN V2StepEnd(state, "ValueError", FALSE)
    ELSE IF state.tag = "Idle"
    THEN CASE response.type = "start_task" ->
                V2StepEnd(TaskPendingState, "returned", FALSE)
           [] response.type = "step_failure" ->
                StepFailedCaught(state)
           [] OTHER ->
                V2StepEnd(state, "ValidationError", FALSE)
    ELSE IF response.type = "start_task"
    THEN V2StepEnd(state, "ValidationError", FALSE)
    ELSE HandleTaskExecutionResponse(state, response)

NoV2Step ==
    [stepped |-> FALSE, before |-> IdleState, request |-> "",
     sent |-> V2Report(NoResult),
     response |-> V2Response("none", "", "", EmptyDict),
     outcome |-> "", executed |-> FALSE, out |-> NoOutcome]

\* The steps so far: the requests and the planner's answers (the type, and for a
\* call_function whether the action space has the name), the invocations of
\* executables, the FunctionResult of the function executed last, whether a
\* request has reported it, both as they were when the last step's
\* answer arrived, and the number of client calls made.
NoV2Run ==
    [trace |-> <<>>, invocations |-> 0, executed |-> NoResult, reported |-> FALSE,
     executed_before |-> NoResult, reported_before |-> FALSE, requests |-> 0]

\* A step that repeats its client call when the planner reports a step failure.
V2ClientCalls_RetryOnFailure(state, response) ==
    IF response.type = "step_failure"
    THEN <<V2Request(state), V2Request(state)>>
    ELSE <<V2Request(state)>>

\* The client calls of one step(): each case of `match self.state` makes
\* one, and neither the handling of the response nor the except clause
\* makes another.
V2ClientCalls(state, response) == <<V2Request(state)>>

\* After Agent.__init__: self.state = IdleState()
V2Init ==
    /\ v2State = IdleState
    /\ v2Last = NoV2Step
    /\ v2Run = NoV2Run

\* One step() answered with `response`.
V2StepTaken(response) ==
    LET e == V2Step(v2State, response)
    IN  /\ v2State' = e.state
        /\ v2Last' = [stepped |-> TRUE, before |-> v2State,
                      request |-> V2Request(v2State),
                      sent |-> V2RequestResult(v2State), response |-> response,
                      outcome |-> e.outcome, executed |-> e.executed,
                      out |-> e.out]

\* agent.step()
AgentV2Step ==
    /\ \E response \in V2Responses : V2StepTaken(response)
    /\ UNCHANGED v2Run

\* agent.step(), with the history of the steps kept
AgentV2TracedStep ==
    /\ Len(v2Run.trace) < MaxV2Steps
    /\ \E response \in V2Responses :
        /\ V2StepTaken(response)
        /\ LET e == V2Step(v2State, response)
               reported == \/ v2Run.reported
                           \/ /\ v2State.tag = "TaskRunning"
                              /\ V2RequestResult(v2State) = V2Report(v2Run.executed)
           IN  v2Run' =
                [trace |-> Append(v2Run.trace,
                                  [request |-> V2Request(v2State),
                                   type |-> response.type,
                                   present |-> response.fn_name \in DOMAIN V2ActionSpace]),
                 invocations |-> v2Run.invocations + (IF e.out.invoked THEN 1 ELSE 0),
                 executed |-> IF e.out.invoked /\ ~e.out.raised THEN e.out.result
                              ELSE v2Run.executed,
                 reported |-> IF e.out.invoked /\ ~e.out.raised THEN FALSE
                              ELSE reported,
                 executed_before |-> v2Run.executed,
                 reported_before |-> reported,
                 requests |-> v2Run.requests + Len(V2ClientCalls(v2State, response))]

----------------------------------------------------------------------------
(* State-update functions, supplied by the caller *)

\* A state value: its Python type, whether the Worker's wrapper has added
\* "instructions", and what the function saw: the action id of the
\* function_result it was called with (None for no function_result).
StateValue(type, instructions, status, seen) ==
    [type |-> type, instructions |-> instructions, status |-> status, seen |-> seen]

NoState == StateValue("NoneType", FALSE, "", None)

\* "ready" is get_test_state of the tests; "tracking" keeps what it was
\* called with; the others return a str, None, or a Mapping that is no dict.
StateFns == {"ready", "tracking", "returns_str", "returns_none", "returns_proxy"}

\* get_state_fn(function_result, current_state); NoResult stands for a
\* function_result of None.
StateFn(fn, function_result, current_state) ==
    CASE fn = "ready" -> StateValue("dict", FALSE, "ready", None)
      [] fn = "tracking" -> StateValue("dict", FALSE, "active", function_result.action_id)
      [] fn = "returns_str" -> StateValue("str", FALSE, "", None)
      [] fn = "returns_none" -> StateValue("NoneType", FALSE, "", None)
      [] fn = "returns_proxy" -> StateValue("mapping", FALSE, "ready", None)
      [] fn = "latching" ->
            \* keeps the first action id it has seen in current_state
            StateValue("dict", FALSE, "active",
                       IF current_state.seen \in {None, ""}
                       THEN function_result.action_id ELSE current_state.seen)

IsDictState(v) == v.type = "dict"
IsMappingState(v) == v.type \in {"dict", "mapping"}

----------------------------------------------------------------------------
(* utils.post, utils.create_agent, utils.create_workers *)

\* What the remote planner answers to one POST.
PostAnswers ==
    {[kind |-> "http", status |-> 200, id |-> "ag1"],
     [kind |-> "http", status |-> 200, id |-> None],
     [kind |-> "http", status |-> 204, id |-> None],
     [kind |-> "http", status |-> 401, id |-> None],
     [kind |-> "http", status |-> 500, id |-> None],
     [kind |-> "Timeout", status |-> 0, id |-> None]}

PostReturn(id) == [raised |-> FALSE, exc |-> "", id |-> id]
PostRaise(exc) == [raised |-> TRUE, exc |-> exc, id |-> None]

\* utils.post, for a request whose data carries `name`: the "id" of the
\* returned data (None when it has none), or the exception raised.
post(name, answer) ==
    IF answer.kind # "http" THEN PostRaise("APIError")
    ELSE IF answer.status = 401 THEN PostRaise("AuthenticationError")
    ELSE IF answer.status = 400 THEN PostRaise("ValidationError")
    ELSE IF answer.status = 429 THEN PostRaise("APIError")
    ELSE IF answer.status >= 500 THEN PostRaise("APIError")
    ELSE IF answer.status = 204 THEN PostReturn(name)
    ELSE PostReturn(answer.id)

RemoteCall(endpoint, by, name) == [endpoint |-> endpoint, by |-> by, name |-> name]

\* How a call that may reach the planner ends: the exception that left it
\* ("" for none), the id it returned, and the requests it sent.
CallEnd(exc, id, sent) == [exc |-> exc, id |-> id, sent |-> sent]

\* The request of create_agent: its data are name, description and goal.
RegistrationCall(name, description, goal) ==
    [endpoint |-> "/v2/agents", by |-> "Agent", name |-> name,
     description |-> description, goal |-> goal]

\* create_agent that posts no goal.
create_agent_DropsGoal(name, description, goal, answer) ==
    IF name = ""
    THEN CallEnd("ValidationError", None, <<>>)
    ELSE LET r == post(name, answer)
             sent == <<RegistrationCall(name, description, "")>>
         IN  IF r.raised THEN CallEnd(r.exc, None, sent)
             ELSE IF r.id = None THEN CallEnd("APIError", None, sent)
             ELSE CallEnd("", r.id, sent)

\* utils.create_agent(base_url, api_key, name, description, goal)
create_agent(name, description, goal, answer) ==
    IF name = ""
    THEN CallEnd("ValidationError", None, <<>>)
    ELSE LET r == post(name, answer)
             sent == <<RegistrationCall(name, description, goal)>>
         IN  IF r.raised THEN CallEnd(r.exc, None, sent)
             ELSE IF r.id = None THEN CallEnd("APIError", None, sent)
             ELSE CallEnd("", r.id, sent)

\* The create_agent(api_key=..., description=..., instruction=...) that
\* Worker.__init__ calls: the registration of the Worker with the planner.
\* utils.create_agent takes (base_url, api_key, name, description, goal), so
\* the function Worker.__init__ is written against is not the one in utils.py
\* (tests/test_worker.py replaces it); it is taken to post one registration
\* request and return the id in the answer.
WorkerCreateAgent(answer) ==
    LET r == post("StandaloneWorker", answer)
        sent == <<RemoteCall("/v2/agents", "Worker", "StandaloneWorker")>>
    IN  IF r.raised THEN CallEnd(r.exc, None, sent)
        ELSE IF r.id = None THEN CallEnd("APIError", None, sent)
        ELSE CallEnd("", r.id, sent)

\* WorkerConfig, worker_config.py: the attributes __init__ sets.
WorkerIds == {"w1", "w2"}

WorkerConfig(id) ==
    [id |-> id, worker_description |-> "Test worker", instruction |-> "",
     get_state_fn |-> "ready", api_key |-> None, action_space |-> "functions of " \o id]

WorkerConfigs == {WorkerConfig(id) : id \in WorkerIds}

\* utils.create_workers(base_url, api_key, workers): the locations are built
\* from worker.id, worker.worker_description and worker.functions, then
\* posted in one request.
create_workers(workers, answer) ==
    IF \E w \in workers : "functions" \notin DOMAIN w
    THEN CallEnd("AttributeError", None, <<>>)
    ELSE LET r == post("default_id", answer)
             sent == <<[endpoint |-> "/v2/maps", by |-> "Agent",
                        name |-> {w.id : w \in workers}]>>
         IN  IF r.raised THEN CallEnd(r.exc, None, sent)
             ELSE IF r.id = None THEN CallEnd("KeyError", None, sent)
             ELSE CallEnd("", r.id, sent)

----------------------------------------------------------------------------
(* Agent.__init__, Agent.add_worker, Agent.compile: agent.py *)

ApiKeys == {"", "test_key"}
AgentNames == {"", "Test Agent"}
AgentGoals == {"Test Goal", "Other Goal"}
AgentDescriptions == {"Test Description", "Other Description"}

NoWorkers == [id \in {} |-> WorkerConfig("w1")]

NoAgent ==
    [constructed |-> FALSE, name |-> "", agent_goal |-> "", agent_description |-> "",
     agent_id |-> None, agent_state |-> NoState, state_fn |-> "ready",
     workers |-> NoWorkers]

\* How a construction ends: the exception ("" for none), the object, the
\* number of calls of the state-update function, and the requests sent.
Constructed(exc, object, seed_calls, sent) ==
    [exc |-> exc, object |-> object, seed_calls |-> seed_calls, sent |-> sent]

\* The arguments of the seed call: self.get_agent_state_fn(None, None)
AgentSeedArgs == [function_result |-> NoResult, current_state |-> NoState]

\* Agent.__init__ that registers before it validates the seed state.
AgentConstruct_RegistersFirst(api_key, name, agent_goal, agent_description, state_fn, workers, answer) ==
    IF api_key = ""
    THEN Constructed("ValueError", NoAgent, 0, <<>>)
    ELSE LET c == create_agent(name, agent_description, agent_goal, answer)
             initial_state == StateFn(state_fn, NoResult, NoState)
         IN  IF c.exc # ""
             THEN Constructed(c.exc, NoAgent, 0, c.sent)
             ELSE IF ~IsDictState(initial_state)
             THEN Constructed("ValidationError", NoAgent, 1, c.sent)
             ELSE Constructed("",
                     [constructed |-> TRUE, name |-> name,
                      agent_goal |-> agent_goal,
                      agent_description |-> agent_description, agent_id |-> c.id,
                      agent_state |-> initial_state, state_fn |-> state_fn,
                      workers |-> workers],
                     1, c.sent)

\* Agent.__init__
AgentConstruct(api_key, name, agent_goal, agent_description, state_fn, workers, answer) ==
    IF api_key = ""
    THEN Constructed("ValueError", NoAgent, 0, <<>>)
    ELSE LET initial_state == StateFn(state_fn, AgentSeedArgs.function_result,
                                      AgentSeedArgs.current_state)
         IN  IF ~IsDictState(initial_state)
             THEN Constructed("ValidationError", NoAgent, 1, <<>>)
             ELSE LET c == create_agent(name, agent_description, agent_goal, answer)
                  IN  IF c.exc # ""
                      THEN Constructed(c.exc, NoAgent, 1, c.sent)
                      ELSE Constructed("",
                              [constructed |-> TRUE, name |-> name,
                               agent_goal |-> agent_goal,
                               agent_description |-> agent_description,
                               agent_id |-> c.id, agent_state |-> initial_state,
                               state_fn |-> state_fn, workers |-> workers],
                              1, c.sent)

\* Agent.compile: the exception that leaves it and the requests it sends.
Compile(workers, answer) ==
    IF DOMAIN workers = {}
    THEN CallEnd("ValueError", None, <<>>)
    ELSE create_workers({workers[id] : id \in DOMAIN workers}, answer)

----------------------------------------------------------------------------
(* Worker.__init__, worker.py, and Worker.execute_function *)

\* The action space: fn_name -> the Function's executable.
WorkerActionSpace == V2ActionSpace

NoWorker ==
    [constructed |-> FALSE, state |-> NoState, state_fn |-> "ready",
     agent_id |-> None, submission_id |-> None, function_result |-> NoResult]

\* The dummy FunctionResult of Worker.__init__ and Worker._get_action.
DummyFunctionResult ==
    [action_id |-> "", action_status |-> DONE, feedback_message |-> <<>>,
     info |-> EmptyDict]

\* self.get_state_fn: {"instructions": ..., **get_state_fn(...)}; the ** of a
\* value that is no mapping raises TypeError.
WorkerGetState(state_fn, function_result, current_state) ==
    LET v == StateFn(state_fn, function_result, current_state)
    IN  IF IsMappingState(v)
        THEN [raised |-> FALSE, state |-> StateValue("dict", TRUE, v.status, v.seen)]
        ELSE [raised |-> TRUE, state |-> NoState]

\* The arguments of the seed call: self.get_state_fn(dummy_function_result, None)
WorkerSeedArgs == [function_result |-> DummyFunctionResult, current_state |-> NoState]

\* Worker.__init__
WorkerConstruct(api_key, state_fn, answer) ==
    IF api_key = ""
    THEN Constructed("ValueError", NoWorker, 0, <<>>)
    ELSE LET seed == WorkerGetState(state_fn, WorkerSeedArgs.function_result,
                                    WorkerSeedArgs.current_state)
         IN  IF seed.raised
             THEN Constructed("TypeError", NoWorker, 1, <<>>)
             ELSE LET c == WorkerCreateAgent(answer)
                  IN  IF c.exc # ""
                      THEN Constructed(c.exc, NoWorker, 1, c.sent)
                      ELSE Constructed("",
                              [constructed |-> TRUE, state |-> seed.state,
                               state_fn |-> state_fn, agent_id |-> c.id,
                               submission_id |-> None,
                               function_result |-> NoResult],
                              1, c.sent)

\* execute_function that looks the name up as Worker.step does.
WorkerExecuteFunction_KeyError(name, action_id, raw_args) ==
    IF name \notin DOMAIN WorkerActionSpace
    THEN Raised("KeyError", FALSE, EmptyDict)
    ELSE Execute(WorkerActionSpace[name],
                 [fn_id |-> action_id, args_kind |-> "dict", args |-> raw_args])

\* Worker.execute_function(name, action_id, raw_args): a name absent from the
\* action space gives a FAILED FunctionResult that names it.  worker.py does
\* not define it (agent.py:263 and tests/game/test_worker.py call it); it is
\* written from its documented behaviour, with Function.execute as modelled
\* above for a name that is present.
WorkerExecuteFunction(name, action_id, raw_args) ==
    IF name \notin DOMAIN WorkerActionSpace
    THEN Returned([action_id |-> action_id, action_status |-> FAILED,
                   feedback_message |-> <<"Function ", name, " not found">>,
                   info |-> EmptyDict],
                  FALSE, EmptyDict)
    ELSE Execute(WorkerActionSpace[name],
                 [fn_id |-> action_id, args_kind |-> "dict", args |-> raw_args])

----------------------------------------------------------------------------
(* The operations on the Agent and the Worker *)

\* The body of a request to the planner that carries state: the state, and
\* the function result without its info.
NoRequest ==
    [environment |-> NoState, action_id |-> None, action_status |-> "none",
     feedback_message |-> <<>>]

\* What the planner directs: an action type and its arguments.
NoDirective ==
    [action_type |-> "", has_args |-> FALSE, fn_name |-> "", fn_id |-> "",
     args |-> EmptyDict]

NoAnswer == [kind |-> "", status |-> 0, id |-> None]

NoOp ==
    [op |-> "", exc |-> "", api_key |-> "", state_fn |-> "ready",
     goal |-> "", description |-> "", answer |-> NoAnswer,
     seed_calls |-> 0, sent |-> <<>>, log_before |-> 0,
     workers_before |-> {}, name |-> "", action_id |-> "", out |-> NoOutcome,
     before |-> NoWorker, request |-> NoRequest, directive |-> NoDirective,
     state_calls |-> 0, state_arg |-> NoResult, state_before |-> NoState,
     msg |-> ""]

OwnersInit ==
    /\ agent = NoAgent
    /\ worker = NoWorker
    /\ remoteLog = <<>>
    /\ last = NoOp
    /\ runPc = "none"

\* Agent(api_key, name, agent_goal, agent_description, get_agent_state_fn, workers)
AgentInit ==
    /\ Len(remoteLog) < MaxRemoteCalls
    /\ \E api_key \in ApiKeys, name \in AgentNames, state_fn \in StateFns,
          answer \in PostAnswers :
            LET c == AgentConstruct(api_key, name, "Test Goal", "Test Description",
                                    state_fn, NoWorkers, answer)
            IN  /\ agent' = IF c.exc = "" THEN c.object ELSE agent
                /\ remoteLog' = remoteLog \o c.sent
                /\ last' = [NoOp EXCEPT !.op = "Agent.__init__", !.exc = c.exc,
                                        !.api_key = api_key, !.state_fn = state_fn,
                                        !.seed_calls = c.seed_calls, !.sent = c.sent,
                                        !.log_before = Len(remoteLog), !.name = name,
                                        !.state_arg = AgentSeedArgs.function_result,
                                        !.state_before = AgentSeedArgs.current_state]
    /\ UNCHANGED <<worker, runPc>>

\* agent.add_worker(worker_config)
AgentAddWorker ==
    /\ agent.constructed
    /\ \E config \in WorkerConfigs :
            /\ agent' = [agent EXCEPT !.workers =
                            [id \in DOMAIN agent.workers \cup {config.id} |->
                                IF id = config.id THEN config ELSE agent.workers[id]]]
            /\ last' = [NoOp EXCEPT !.op = "add_worker", !.name = config.id,
                                    !.log_before = Len(remoteLog),
                                    !.workers_before = DOMAIN agent.workers]
    /\ UNCHANGED <<worker, remoteLog, runPc>>

\* agent.compile()
AgentCompile ==
    /\ agent.constructed
    /\ Len(remoteLog) < MaxRemoteCalls
    /\ \E answer \in PostAnswers :
            LET c == Compile(agent.workers, answer)
            IN  /\ remoteLog' = remoteLog \o c.sent
                /\ last' = [NoOp EXCEPT !.op = "compile", !.exc = c.exc,
                                        !.sent = c.sent,
                                        !.log_before = Len(remoteLog),
                                        !.workers_before = DOMAIN agent.workers]
    /\ UNCHANGED <<agent, worker, runPc>>

\* Worker(api_key, description, get_state_fn, action_space, instruction)
WorkerInit ==
    /\ Len(remoteLog) < MaxRemoteCalls
    /\ \E api_key \in ApiKeys, state_fn \in StateFns, answer \in PostAnswers :
            LET c == WorkerConstruct(api_key, state_fn, answer)
            IN  /\ worker' = IF c.exc = "" THEN c.object ELSE worker
                /\ remoteLog' = remoteLog \o c.sent
                /\ last' = [NoOp EXCEPT !.op = "Worker.__init__", !.exc = c.exc,
                                        !.api_key = api_key, !.state_fn = state_fn,
                                        !.seed_calls = c.seed_calls, !.sent = c.sent,
                                        !.log_before = Len(remoteLog),
                                        !.state_arg = WorkerSeedArgs.function_result,
                                        !.state_before = WorkerSeedArgs.current_state]
    /\ UNCHANGED <<agent, runPc>>

ExecuteNames == DOMAIN WorkerActionSpace \cup {"missing", "nonexistent"}
ExecuteIds == {"123", "a2"}
ExecuteArgs == {EmptyDict, [text |-> <<"value", "hi">>]}

\* worker.execute_function(name, action_id, raw_args): the result is folded
\* into the state by the state-update function.
WorkerExecute ==
    /\ worker.constructed
    /\ \E name \in ExecuteNames, action_id \in ExecuteIds, raw_args \in ExecuteArgs :
            LET out == WorkerExecuteFunction(name, action_id, raw_args)
                st == WorkerGetState(worker.state_fn, out.result, worker.state)
            IN  /\ worker' = IF out.raised \/ st.raised THEN worker
                              ELSE [worker EXCEPT !.state = st.state]
                /\ last' = [NoOp EXCEPT !.op = "execute_function", !.name = name,
                                        !.exc = out.exc, !.action_id = action_id,
                                        !.out = out, !.log_before = Len(remoteLog)]
    /\ UNCHANGED <<agent, remoteLog, runPc>>

----------------------------------------------------------------------------
(* Worker.set_task, Worker.step, Worker.run: worker.py; Agent._get_action *)

\* ActionType
ActionTypes == {"call_function", "continue_function", "wait", "go_to"}

Directive(action_type, has_args, fn_name, fn_id, args) ==
    [action_type |-> action_type, has_args |-> has_args, fn_name |-> fn_name,
     fn_id |-> fn_id, args |-> args]

\* The directives a planner answers with: call_function with action_args
\* {fn_name, fn_id, args} or without, the other action types, and a body
\* that is no ActionResponse.
Directives ==
    {Directive("call_function", TRUE, n, i, a) :
        n \in {"echo", "crash", "missing"}, i \in {"a1", "a2"}, a \in ExecuteArgs}
    \cup {Directive(t, FALSE, "", "", EmptyDict) : t \in ActionTypes \cup {"bogus"}}

PlannerAnswer(kind, status, submission_id, directive) ==
    [kind |-> kind, status |-> status, id |-> None,
     submission_id |-> submission_id, directive |-> directive]

PlannerFailures ==
    {PlannerAnswer("http", 401, None, NoDirective),
     PlannerAnswer("http", 500, None, NoDirective),
     PlannerAnswer("Timeout", 0, None, NoDirective)}

\* Answers to set_task: a submission id, or data without one.
TaskAnswers ==
    PlannerFailures
    \cup {PlannerAnswer("http", 200, sub, NoDirective) : sub \in {"sub1", None}}

\* Answers to the next-action request of step.
StepAnswers ==
    PlannerFailures
    \cup {PlannerAnswer("http", 200, None, d) : d \in Directives}

\* What utils.post gives the Worker: the exception, or the fields of the
\* returned data (the data of a 204 holds "id" alone).
PlannerData(answer) ==
    LET r == post("default_id", answer)
        empty == r.raised \/ answer.status = 204
    IN  [raised |-> r.raised, exc |-> r.exc,
         submission_id |-> IF empty THEN None ELSE answer.submission_id,
         directive |-> IF empty THEN NoDirective ELSE answer.directive]

\* How an operation of a driven Worker ends.
DriveEnd(exc, msg, w, sent, request, directive, out, state_calls, state_arg) ==
    [exc |-> exc, msg |-> msg, worker |-> w, sent |-> sent, request |-> request,
     directive |-> directive, out |-> out, state_calls |-> state_calls,
     state_arg |-> state_arg]

\* Worker.set_task(task)
SetTask(w, answer) ==
    LET d == PlannerData(answer)
        sent == <<RemoteCall("/v2/agents/{agent_id}/tasks", "Worker", "")>>
    IN  IF d.raised
        THEN DriveEnd(d.exc, "", w, sent, NoRequest, NoDirective, NoOutcome, 0, NoResult)
        ELSE IF d.submission_id = None
        THEN DriveEnd("ValueError", "Failed to assign task",
                      [w EXCEPT !.submission_id = None],
                      sent, NoRequest, NoDirective, NoOutcome, 0, NoResult)
        ELSE DriveEnd("", "", [w EXCEPT !.submission_id = d.submission_id],
                      sent, NoRequest, NoDirective, NoOutcome, 0, NoResult)

\* Worker._get_action: the request body, with the dummy FunctionResult in
\* place of None and model_dump(exclude={'info'}).
StepRequest(w) ==
    LET fr == IF w.function_result = NoResult THEN DummyFunctionResult
              ELSE w.function_result
    IN  [environment |-> w.state, action_id |-> fr.action_id,
         action_status |-> fr.action_status,
         feedback_message |-> fr.feedback_message]

NextSent == <<RemoteCall("/v2/agents/{agent_id}/tasks/{submission_id}/next", "Worker", "")>>

\* step on a Worker without a task that asks the planner all the same.
StepIdle_AsksPlanner(w) ==
    DriveEnd("ValueError", "No task set", w, NextSent, StepRequest(w),
             NoDirective, NoOutcome, 0, NoResult)

\* Worker.step, no submission id: raise ValueError("No task set")
StepIdle(w) ==
    DriveEnd("ValueError", "No task set", w, <<>>, NoRequest, NoDirective,
             NoOutcome, 0, NoResult)

\* A function absent from the action space, skipped in silence.
StepFunctionAbsent_Skipped(w, req, d) ==
    DriveEnd("", "", w, NextSent, req, d, NoOutcome, 0, NoResult)

\* self.action_space[action_args["fn_name"]] of an absent name: KeyError
StepFunctionAbsent(w, req, d) ==
    DriveEnd("KeyError", d.fn_name, w, NextSent, req, d, NoOutcome, 0, NoResult)

\* The state update after an execution, left out when the function failed.
StepFoldResult_DropsFailed(w, req, d, out) ==
    IF out.result.action_status = FAILED
    THEN DriveEnd("", "", [w EXCEPT !.function_result = out.result],
                  NextSent, req, d, out, 0, NoResult)
    ELSE DriveEnd("", "",
                  [w EXCEPT !.function_result = out.result,
                            !.state = WorkerGetState(w.state_fn, out.result, w.state).state],
                  NextSent, req, d, out, 1, out.result)

\* The state update after an execution, called without the current state.
StepFoldResult_FromScratch(w, req, d, out) ==
    DriveEnd("", "",
             [w EXCEPT !.function_result = out.result,
                       !.state = WorkerGetState(w.state_fn, out.result, NoState).state],
             NextSent, req, d, out, 1, out.result)

\* self._function_result = <the result>; self.state =
\* self.get_state_fn(self._function_result, self.state)
StepFoldResult(w, req, d, out) ==
    LET st == WorkerGetState(w.state_fn, out.result, w.state)
    IN  IF st.raised
        THEN DriveEnd("TypeError", "", [w EXCEPT !.function_result = out.result],
                      NextSent, req, d, out, 1, out.result)
        ELSE DriveEnd("", "",
                      [w EXCEPT !.function_result = out.result, !.state = st.state],
                      NextSent, req, d, out, 1, out.result)

\* Worker.step, ActionType.CALL_FUNCTION
StepCallFunction(w, req, d) ==
    IF ~d.has_args
    THEN DriveEnd("ValueError", "No function information provided by GAME",
                  w, NextSent, req, d, NoOutcome, 0, NoResult)
    ELSE IF d.fn_name \notin DOMAIN WorkerActionSpace
    THEN StepFunctionAbsent(w, req, d)
    ELSE LET out == Execute(WorkerActionSpace[d.fn_name],
                            [fn_id |-> d.fn_id, args_kind |-> "dict", args |-> d.args])
         IN  IF out.raised
             THEN DriveEnd(out.exc, "", w, NextSent, req, d, out, 0, NoResult)
             ELSE StepFoldResult(w, req, d, out)

\* WAIT that keeps the submission id.
StepWait_KeepsHandle(w, req, d) ==
    DriveEnd("", "", [w EXCEPT !.function_result = NoResult],
             NextSent, req, d, NoOutcome, 0, NoResult)

\* Worker.step, ActionType.WAIT
StepWait(w, req, d) ==
    DriveEnd("", "", [w EXCEPT !.submission_id = None, !.function_result = NoResult],
             NextSent, req, d, NoOutcome, 0, NoResult)

\* Another action type, taken for nothing to do.
StepUnexpected_Ignored(w, req, d) ==
    DriveEnd("", "", w, NextSent, req, d, NoOutcome, 0, NoResult)

\* Another action type, taken for the end of the task.
StepUnexpected_DropsTask(w, req, d) ==
    DriveEnd("ValueError", "Unexpected action type",
             [w EXCEPT !.submission_id = None, !.function_result = NoResult],
             NextSent, req, d, NoOutcome, 0, NoResult)

\* Worker.step, any other action type
StepUnexpected(w, req, d) ==
    DriveEnd("ValueError", "Unexpected action type", w, NextSent, req, d,
             NoOutcome, 0, NoResult)

\* Worker.step()
Step(w, answer) ==
    IF w.submission_id = None
    THEN StepIdle(w)
    ELSE LET req == StepRequest(w)
             data == PlannerData(answer)
             d == data.directive
         IN  IF data.raised
             THEN DriveEnd(data.exc, "", w, NextSent, req, NoDirective,
                           NoOutcome, 0, NoResult)
             ELSE IF d.action_type \notin ActionTypes
             THEN \* ActionResponse.model_validate rejects the body
                  DriveEnd("pydantic.ValidationError", "", w, NextSent, req, d,
                           NoOutcome, 0, NoResult)
             ELSE IF d.action_type = "call_function" THEN StepCallFunction(w, req, d)
             ELSE IF d.action_type = "wait" THEN StepWait(w, req, d)
             ELSE StepUnexpected(w, req, d)

\* What an operation of the driven Worker leaves in `last`.
DriveOp(op, e) ==
    [NoOp EXCEPT !.op = op, !.exc = e.exc, !.msg = e.msg, !.sent = e.sent,
                 !.log_before = Len(remoteLog), !.before = worker,
                 !.request = e.request, !.directive = e.directive, !.out = e.out,
                 !.state_calls = e.state_calls, !.state_arg = e.state_arg,
                 !.state_before = worker.state]

\* The two registrations of DriversInit are not counted.
DriveBudget == Len(remoteLog) < 2 + MaxDriverCalls

\* worker.set_task(task)
WorkerSetTask ==
    /\ worker.constructed /\ runPc # "running" /\ DriveBudget
    /\ \E answer \in TaskAnswers :
            LET e == SetTask(worker, answer)
            IN  /\ worker' = e.worker
                /\ remoteLog' = remoteLog \o e.sent
                /\ last' = DriveOp("set_task", e)
    /\ UNCHANGED <<agent, runPc>>

\* worker.step()
WorkerStep ==
    /\ worker.constructed /\ runPc # "running" /\ DriveBudget
    /\ \E answer \in StepAnswers :
            LET e == Step(worker, answer)
            IN  /\ worker' = e.worker
                /\ remoteLog' = remoteLog \o e.sent
                /\ last' = DriveOp("step", e)
    /\ UNCHANGED <<agent, runPc>>

\* The loop of run that makes one step and returns.
RunLoopCondition_Once(w) == FALSE

\* while self._submission_id
RunLoopCondition(w) == w.submission_id # None

\* worker.run(task): self.set_task(task), then the loop condition
WorkerRunStart ==
    /\ worker.constructed /\ runPc # "running" /\ DriveBudget
    /\ \E answer \in TaskAnswers :
            LET e == SetTask(worker, answer)
            IN  /\ worker' = e.worker
                /\ remoteLog' = remoteLog \o e.sent
                /\ last' = DriveOp("run: set_task", e)
                /\ runPc' = IF e.exc # "" THEN "raised"
                            ELSE IF RunLoopCondition(e.worker) THEN "running"
                            ELSE "returned"
    /\ UNCHANGED agent

\* worker.run(task): one self.step() of the loop, then the loop condition
WorkerRunStep ==
    /\ runPc = "running" /\ DriveBudget
    /\ \E answer \in StepAnswers :
            LET e == Step(worker, answer)
            IN  /\ worker' = e.worker
                /\ remoteLog' = remoteLog \o e.sent
                /\ last' = DriveOp("run: step", e)
                /\ runPc' = IF e.exc # "" THEN "raised"
                            ELSE IF RunLoopCondition(e.worker) THEN "running"
                            ELSE "returned"
    /\ UNCHANGED agent

----------------------------------------------------------------------------
(* Session, agent.py *)

\* str(uuid.uuid4()): 122 random bits; two draws are taken to differ, so the
\* n-th draw is the value n.
Uuid4(drawn) == drawn + 1

\* The FunctionResults a Session is given to hold.
SessionResults ==
    [action_id : {"a1", "a2"}, action_status : FunctionResultStatus,
     feedback_message : {<<>>, <<"Error executing function: ", "bad city">>},
     info : {EmptyDict}]

\* Session.reset that keeps the function_result.
SessionReset_KeepsResult(s, drawn) ==
    [id |-> Uuid4(drawn), function_result |-> s.function_result]

\* Session.reset
SessionReset(s, drawn) ==
    [id |-> Uuid4(drawn), function_result |-> NoResult]

NoSessionOp == [op |-> "", id |-> 0, function_result |-> NoResult]

\* Session.__init__
SessionInit ==
    /\ session = [id |-> Uuid4(0), function_result |-> NoResult]
    /\ uuids = 1
    /\ sessLast = NoSessionOp

\* session.function_result = result (Agent.step, line 269)
SessionSetResult ==
    /\ \E result \in SessionResults :
            session' = [session EXCEPT !.function_result = result]
    /\ sessLast' = [op |-> "set", id |-> session.id,
                    function_result |-> session.function_result]
    /\ UNCHANGED uuids

\* session.reset(), also through Agent.reset
SessionResetCall ==
    /\ uuids < MaxUuids
    /\ session' = SessionReset(session, uuids)
    /\ uuids' = uuids + 1
    /\ sessLast' = [op |-> "reset", id |-> session.id,
                    function_result |-> session.function_result]

----------------------------------------------------------------------------
(* Agent._get_action, agent.py, and the drivers after construction *)

\* How Agent._get_action ends: the exception, the Agent, the requests sent,
\* and the state the request body was built with.
GetActionEnd(exc, a, sent, state) ==
    [exc |-> exc, agent |-> a, sent |-> sent, state |-> state]

\* _get_action that builds the request before it updates the state.
GetAction_StaleState(a, function_result, answer) ==
    LET updated == [a EXCEPT !.agent_state =
                        StateFn(a.state_fn, function_result, a.agent_state)]
        sent == <<RemoteCall("/v2/actions", "Agent", a.name)>>
    IN  IF function_result # NoResult
        THEN GetActionEnd("AttributeError", updated, <<>>, a.agent_state)
        ELSE IF post(a.name, answer).raised
        THEN GetActionEnd(post(a.name, answer).exc, updated, sent, a.agent_state)
        ELSE GetActionEnd("TypeError", updated, sent, a.agent_state)

\* Agent._get_action(function_result): the state is updated first; the
\* request body calls function_result.to_dict(), which FunctionResult does
\* not have; ActionResponse(response) passes the data positionally, which a
\* pydantic model does not accept.
GetAction(a, function_result, answer) ==
    LET updated == [a EXCEPT !.agent_state =
                        StateFn(a.state_fn, function_result, a.agent_state)]
        sent == <<RemoteCall("/v2/actions", "Agent", a.name)>>
    IN  IF function_result # NoResult
        THEN GetActionEnd("AttributeError", updated, <<>>, updated.agent_state)
        ELSE IF post(a.name, answer).raised
        THEN GetActionEnd(post(a.name, answer).exc, updated, sent, updated.agent_state)
        ELSE GetActionEnd("TypeError", updated, sent, updated.agent_state)

\* agent._get_action(function_result)
AgentGetAction ==
    /\ agent.constructed /\ runPc # "running" /\ DriveBudget
    /\ \E function_result \in {NoResult} \cup SessionResults, answer \in PostAnswers :
            LET e == GetAction(agent, function_result, answer)
            IN  /\ agent' = e.agent
                /\ remoteLog' = remoteLog \o e.sent
                /\ last' = [NoOp EXCEPT !.op = "_get_action", !.exc = e.exc,
                                        !.sent = e.sent,
                                        !.log_before = Len(remoteLog),
                                        !.request = [NoRequest EXCEPT
                                                        !.environment = e.state],
                                        !.state_calls = 1,
                                        !.state_arg = function_result,
                                        !.state_before = agent.agent_state]
    /\ UNCHANGED <<worker, runPc>>

\* The registration answer that constructs an owner.
Registered == [kind |-> "http", status |-> 200, id |-> "ag1"]

\* An Agent and a Worker as their constructors leave them.
DriversInit ==
    \E state_fn \in {"ready", "tracking", "latching"} :
        LET a == AgentConstruct("test_key", "Test Agent", "Test Goal", "Test Description",
                                "tracking", NoWorkers, Registered)
            w == WorkerConstruct("test_key", state_fn, Registered)
        IN  /\ agent = a.object
            /\ worker = w.object
            /\ remoteLog = a.sent \o w.sent
            /\ last = NoOp
            /\ runPc = "none"

----------------------------------------------------------------------------
(* One Agent from its construction on: agent.py *)

\* The requests one Agent may send.
AgentBudget == Len(remoteLog) < 1 + MaxDriverCalls

AgentStateFns == {"ready", "tracking", "returns_str"}

\* The FunctionResults the Agent's Session comes to hold.
AgentResults == {r \in SessionResults : r.feedback_message = <<>>}

\* Agent(api_key, name, agent_goal, agent_description, get_agent_state_fn):
\* self._session = Session() follows the check of the API key.  A
\* construction that fails may be tried again until one has reached the
\* planner.
AgentNew ==
    /\ ~agent.constructed /\ remoteLog = <<>> /\ uuids < MaxUuids
    /\ \E api_key \in ApiKeys, name \in AgentNames, agent_goal \in AgentGoals,
          agent_description \in AgentDescriptions, state_fn \in AgentStateFns,
          answer \in PostAnswers :
            LET c == AgentConstruct(api_key, name, agent_goal, agent_description,
                                    state_fn, NoWorkers, answer)
            IN  /\ agent' = IF c.exc = "" THEN c.object ELSE agent
                /\ session' = IF api_key = "" THEN session
                               ELSE [id |-> Uuid4(uuids), function_result |-> NoResult]
                /\ uuids' = IF api_key = "" THEN uuids ELSE uuids + 1
                /\ remoteLog' = remoteLog \o c.sent
                /\ last' = [NoOp EXCEPT !.op = "Agent.__init__", !.exc = c.exc,
                                        !.api_key = api_key, !.state_fn = state_fn,
                                        !.seed_calls = c.seed_calls, !.sent = c.sent,
                                        !.log_before = Len(remoteLog), !.name = name,
                                        !.goal = agent_goal,
                                        !.description = agent_description,
                                        !.answer = answer]
    /\ UNCHANGED <<worker, runPc, sessLast>>

\* agent.add_worker(worker_config)
AgentLifeAddWorker ==
    /\ AgentAddWorker
    /\ UNCHANGED sessVars

\* agent.reset(): self._session.reset()
AgentReset ==
    /\ agent.constructed /\ uuids < MaxUuids
    /\ session' = SessionReset(session, uuids)
    /\ uuids' = uuids + 1
    /\ last' = [NoOp EXCEPT !.op = "reset", !.log_before = Len(remoteLog)]
    /\ UNCHANGED <<agent, worker, remoteLog, runPc, sessLast>>

\* agent.compile()
AgentLifeCompile ==
    /\ AgentBudget
    /\ AgentCompile
    /\ UNCHANGED sessVars

\* How Agent.step ends: the exception, the Agent, its Session, the requests.
AgentStepEnd(exc, a, s, sent) == [exc |-> exc, agent |-> a, session |-> s, sent |-> sent]

\* Agent.step: _get_action(self._session.function_result) raises, so the
\* comparison with ActionType.FUNCTION, a member the enumeration does not
\* have, and the assignment of line 269 are not reached.
AgentStep(a, s, answer) ==
    LET e == GetAction(a, s.function_result, answer)
    IN  IF e.exc # ""
        THEN AgentStepEnd(e.exc, e.agent, s, e.sent)
        ELSE AgentStepEnd("AttributeError", e.agent, s, e.sent)

\* agent.step()
AgentStepCall ==
    /\ agent.constructed /\ AgentBudget
    /\ \E answer \in PostAnswers :
            LET e == AgentStep(agent, session, answer)
            IN  /\ agent' = e.agent
                /\ session' = e.session
                /\ remoteLog' = remoteLog \o e.sent
                /\ last' = [NoOp EXCEPT !.op = "Agent.step", !.exc = e.exc,
                                        !.sent = e.sent,
                                        !.log_before = Len(remoteLog),
                                        !.request = [NoRequest EXCEPT
                                                        !.environment = e.agent.agent_state],
                                        !.state_calls = 1,
                                        !.state_arg = session.function_result,
                                        !.state_before = agent.agent_state,
                                        !.answer = answer]
    /\ UNCHANGED <<worker, runPc, uuids, sessLast>>

\* agent._session.function_result = result: the assignment of Agent.step,
\* line 269, made from outside as tests/game/test_agent.py does on a Session.
AgentHoldResult ==
    /\ agent.constructed
    /\ \E result \in AgentResults :
            /\ result # session.function_result
            /\ session' = [session EXCEPT !.function_result = result]
    /\ last' = [NoOp EXCEPT !.op = "hold", !.log_before = Len(remoteLog)]
    /\ UNCHANGED <<agent, worker, remoteLog, runPc, uuids, sessLast>>

\* A loop that ends in silence when a step raises.
AgentRunNext_StopsQuietly(exc) == IF exc # "" THEN "returned" ELSE "running"

\* Agent.run: `while True: self.step()`.  The condition is the constant True
\* and the body has no break, no return and no try: the loop goes on after
\* a step that returns, and an exception of a step leaves run().
AgentRunNext(exc) == IF exc # "" THEN "raised" ELSE "running"

\* agent.run(): the loop is entered
AgentRunStart ==
    /\ agent.constructed /\ runPc # "running"
    /\ runPc' = "running"
    /\ last' = [NoOp EXCEPT !.op = "Agent.run", !.log_before = Len(remoteLog)]
    /\ UNCHANGED <<agent, worker, remoteLog, uuids, session, sessLast>>

\* agent.run(): one self.step() of the loop
AgentRunStep ==
    /\ runPc = "running" /\ AgentBudget
    /\ \E answer \in PostAnswers :
            LET e == AgentStep(agent, session, answer)
            IN  /\ agent' = e.agent
                /\ session' = e.session
                /\ remoteLog' = remoteLog \o e.sent
                /\ runPc' = AgentRunNext(e.exc)
                /\ last' = [NoOp EXCEPT !.op = "run: Agent.step", !.exc = e.exc,
                                        !.sent = e.sent,
                                        !.log_before = Len(remoteLog),
                                        !.request = [NoRequest EXCEPT
                                                        !.environment = e.agent.agent_state],
                                        !.state_calls = 1,
                                        !.state_arg = session.function_result,
                                        !.state_before = agent.agent_state,
                                        !.answer = answer]
    /\ UNCHANGED <<worker, uuids, sessLast>>

\* Between two runs the host holds a result or resets the Session.
AgentRunHoldResult == runPc # "running" /\ AgentHoldResult

AgentRunReset == runPc # "running" /\ AgentReset

----------------------------------------------------------------------------
(* The WorkerAgent: v2/worker/agent.py and v2/worker/client.py *)

RETRY_ATTEMPTS == 0

\* The client calls one WorkerAgent may make.
MaxWorkerRequests == 3

\* self._action_space: fn_name -> the Function's executable.
WorkerAgentSpace ==
    [echo |-> [kind |-> "echo", msg |-> <<>>],
     crash |-> [kind |-> "raises", msg |-> <<"bad city">>]]

\* What the planner answers to a message or a report: a non-200 status, or a
\* body whose data carries a response type ("idle" is an answer to ping only).
WorkerResponse(type, fn_id, fn_name, fn_args) ==
    [type |-> type, fn_id |-> fn_id, fn_name |-> fn_name, fn_args |-> fn_args]

WorkerResponses ==
    {WorkerResponse(t, "", "", EmptyDict) :
        t \in {"http_error", "step_failed", "final_answer", "idle"}}
    \cup {WorkerResponse("call_function", i, n, a) :
            i \in {"f1", "f2"}, n \in {"echo", "crash", "missing"},
            a \in {EmptyDict, [text |-> <<"hi">>]}}

\* The loop of _send_message and of _report_result with one retry.
AttemptsLeft_OneRetry(attempts) == attempts < 2 + RETRY_ATTEMPTS

\* while True and attempts < 1 + RETRY_ATTEMPTS
AttemptsLeft(attempts) == attempts < 1 + RETRY_ATTEMPTS

\* The first argument of _report_result:
\* f"API output: {feedback_message}" if feedback_message else action_status.value
ReportText(function_call_result) ==
    IF function_call_result.feedback_message # <<>>
    THEN <<"API output: ">> \o function_call_result.feedback_message
    ELSE <<function_call_result.action_status>>

NoWorkerRequest == [kind |-> "", call |-> 0, fn_id |-> "", result |-> <<>>]

\* pc: "ready", "message" (in _send_message), "report" (in
\* _report_result), "returned" or "raised"; calls: the calls of send_message
\* so far; attempts: the counter of the loop the WorkerAgent is in; next: the
\* request the loop sends; requests and responses: the client calls made,
\* each with the number of the send_message call that made it, and their
\* answers; executions: the Functions executed, each with the number of the
\* response that named it.
NoWorkerAgent ==
    [pc |-> "ready", calls |-> 0, attempts |-> 0, next |-> NoWorkerRequest,
     requests |-> <<>>, responses |-> <<>>, executions |-> <<>>, exc |-> ""]

\* No WorkerAgent is driven (the other specifications leave it so).
WorkerAgentIdle == wagent = NoWorkerAgent

\* WorkerAgent(api_key, base_url, prompt, action_space, model_name), its
\* session created.
WorkerAgentInit == wagent = NoWorkerAgent

\* send_message after a response that is not a step failure: the value
\* _send_message or _report_result returns, the test of the while loop, the
\* lookup and the execution, up to the call of _report_result.
HandleWorkerResponse(wa, response) ==
    IF response.type = "final_answer"
    THEN [wa EXCEPT !.pc = "returned"]
    ELSE IF response.fn_name \notin DOMAIN WorkerAgentSpace
    THEN [wa EXCEPT !.pc = "raised", !.exc = "KeyError"]
    ELSE LET r == Execute(WorkerAgentSpace[response.fn_name],
                          [fn_id |-> response.fn_id, args_kind |-> "dict",
                           args |-> response.fn_args])
             ran == Append(wa.executions,
                           [response |-> Len(wa.responses), fn_name |-> response.fn_name])
         IN  IF r.raised
             THEN [wa EXCEPT !.pc = "raised", !.exc = r.exc, !.executions = ran]
             ELSE [wa EXCEPT !.pc = "report", !.attempts = 0, !.executions = ran,
                             !.next = [kind |-> "report", call |-> wa.calls,
                                       fn_id |-> r.result.action_id,
                                       result |-> ReportText(r.result)]]

\* One turn of the loop of _send_message or _report_result: the client call
\* (a non-200 answer raises ValueError, an answer of another type fails
\* validation), the match on the response, and the loop condition.
WorkerAttempt(wa, response) ==
    LET sent == [wa EXCEPT !.requests = Append(wa.requests, wa.next),
                           !.responses = Append(wa.responses,
                                                [type |-> response.type,
                                                 fn_id |-> response.fn_id,
                                                 fn_name |-> response.fn_name])]
    IN  CASE response.type = "http_error" ->
                [sent EXCEPT !.pc = "raised", !.exc = "ValueError"]
          [] response.type = "idle" ->
                [sent EXCEPT !.pc = "raised", !.exc = "ValidationError"]
          [] response.type = "step_failed" ->
                IF AttemptsLeft(wa.attempts + 1)
                THEN [sent EXCEPT !.attempts = wa.attempts + 1]
                ELSE [sent EXCEPT !.attempts = wa.attempts + 1, !.pc = "raised",
                                  !.exc = "Step failed."]
          [] OTHER -> HandleWorkerResponse(sent, response)

\* worker_agent.send_message(message): _send_message is entered
WorkerSendMessage ==
    /\ wagent.pc \in {"ready", "returned", "raised"}
    /\ Len(wagent.requests) < MaxWorkerRequests
    /\ wagent' = [wagent EXCEPT !.pc = "message", !.attempts = 0, !.exc = "",
                                !.calls = wagent.calls + 1,
                                !.next = [kind |-> "message",
                                          call |-> wagent.calls + 1,
                                          fn_id |-> "", result |-> <<>>]]

\* One client call of the WorkerAgent, and what send_message does with its
\* answer
WorkerClientCall ==
    /\ wagent.pc \in {"message", "report"}
    /\ Len(wagent.requests) < MaxWorkerRequests
    /\ \E response \in WorkerResponses : wagent' = WorkerAttempt(wagent, response)

----------------------------------------------------------------------------
(* The three drivers side by side: Worker (worker.py), the task-driven Agent
   (agentv2/autonomous_agent.py) and the WorkerAgent (v2/worker/agent.py).
   They are separate objects that share no state, so a behaviour drives one
   of them and leaves the other two as constructed. *)

WorkerAlone == ~v2Last.stepped /\ v2Run = NoV2Run /\ wagent = NoWorkerAgent

AgentAlone == last = NoOp /\ wagent = NoWorkerAgent

WorkerAgentAlone == last = NoOp /\ ~v2Last.stepped /\ v2Run = NoV2Run

\* worker.set_task(task)
LayerWorkerSetTask == WorkerAlone /\ WorkerSetTask

\* worker.step()
LayerWorkerStep == WorkerAlone /\ WorkerStep

\* agent.step() of the task-driven Agent
LayerAgentStep == AgentAlone /\ AgentV2TracedStep

\* worker_agent.send_message(message)
LayerSendMessage == WorkerAgentAlone /\ WorkerSendMessage

\* a client call of the WorkerAgent
LayerClientCall == WorkerAgentAlone /\ WorkerClientCall

----------------------------------------------------------------------------
(* The result field of the requests: Worker._get_action, worker.py, and
   AutonomousAgentClient.report_function_result *)

\* The info payloads of the FunctionResults.
Infos == {EmptyDict, [temperature |-> <<"20C">>], [token |-> <<"secret">>]}

InfoResults ==
    [action_id : {"a1", "a2"}, action_status : FunctionResultStatus,
     feedback_message : {<<>>, <<"Weather fetched">>}, info : Infos]

\* A result field that is the whole model_dump().
ResultField_WithInfo(by, result) == result

\* "action_result" of Worker._get_action and "function_result" of
\* report_function_result: function_result.model_dump(exclude={'info'})
ResultField(by, result) ==
    IF by = "Worker._get_action"
    THEN LET req == StepRequest([NoWorker EXCEPT !.function_result = result])
         IN  [action_id |-> req.action_id, action_status |-> req.action_status,
              feedback_message |-> req.feedback_message]
    ELSE V2Report(result)

ResultSenders == {"Worker._get_action", "AutonomousAgentClient.report_function_result"}

NoReported ==
    [by |-> "", a |-> NoResult, b |-> NoResult, sent_a |-> V2Report(NoResult),
     sent_b |-> V2Report(NoResult)]

\* Nothing is sent (the other specifications leave it so).
ReportIdle == resultSent = NoReported

\* The results of two runs, drawn from the bounded set.
ReportInit ==
    resultSent \in {[NoReported EXCEPT !.a = a, !.b = b] : a, b \in InfoResults}

\* worker._get_action(function_result) builds its request, in both runs
WorkerSendsResult ==
    /\ resultSent.by = ""
    /\ resultSent' = [resultSent EXCEPT
                        !.by = "Worker._get_action",
                        !.sent_a = ResultField("Worker._get_action", resultSent.a),
                        !.sent_b = ResultField("Worker._get_action", resultSent.b)]

\* client.report_function_result(session_id, function_result, ...) builds
\* its request, in both runs
ClientReportsResult ==
    /\ resultSent.by = ""
    /\ resultSent' = [resultSent EXCEPT
                        !.by = "AutonomousAgentClient.report_function_result",
                        !.sent_a = ResultField(
                            "AutonomousAgentClient.report_function_result", resultSent.a),
                        !.sent_b = ResultField(
                            "AutonomousAgentClient.report_function_result", resultSent.b)]

----------------------------------------------------------------------------
(* HTTP responses and the planner clients: utils.post,
   GAMEClient.make_request, AutonomousAgentClient *)

HttpStatuses == {200, 201, 204, 400, 401, 403, 404, 422, 429, 500, 503}

\* A response body: its text, whether it is JSON, the "id" under "data" and
\* the "message" under "error" (None when it has none).
Body(text, json, data_id, error_message) ==
    [text |-> text, json |-> json, data_id |-> data_id,
     error_message |-> error_message]

Bodies ==
    {Body("{data: {id: ag1}}", TRUE, "ag1", None),
     Body("{error: {message: no such agent}}", TRUE, None, "no such agent"),
     Body("<html>Bad Gateway</html>", FALSE, None, None),
     Body("", FALSE, None, None)}

\* A raised error: its class, its message, and its status_code attribute
\* (0 for None or for a class that has none).
ResponseError(exc, message, status_code) ==
    [exc |-> exc, message |-> message, status_code |-> status_code]

NoError == ResponseError("", <<>>, 0)

Handled(raised, error, data_id) ==
    [raised |-> raised, error |-> error, data_id |-> data_id]

\* utils.post on a response: the error raised, or the "id" of the returned data.
PostOutcome(status, body, name) ==
    IF status = 401
    THEN Handled(TRUE, ResponseError("AuthenticationError", <<"Invalid API key">>, 0), None)
    ELSE IF status = 400
    THEN IF ~body.json
         THEN Handled(TRUE, ResponseError("APIError", <<"Request failed: ", "JSONDecodeError">>, 0), None)
         ELSE Handled(TRUE,
                ResponseError("ValidationError",
                    <<IF body.error_message = None THEN "Invalid request"
                      ELSE body.error_message>>, 0),
                None)
    ELSE IF status = 429
    THEN Handled(TRUE, ResponseError("APIError", <<"Rate limit exceeded">>, 429), None)
    ELSE IF status >= 500
    THEN Handled(TRUE, ResponseError("APIError", <<"Server error">>, status), None)
    ELSE IF status = 204
    THEN Handled(FALSE, NoError, name)
    ELSE IF body.text = ""
    THEN Handled(FALSE, NoError, None)
    ELSE IF ~body.json
    THEN Handled(TRUE, ResponseError("APIError", <<"Invalid JSON response">>, 0), None)
    ELSE Handled(FALSE, NoError, body.data_id)

\* str(e) of the HTTPError that response.raise_for_status() raises.
HTTPErrorText(status) ==
    <<ToString(status),
      IF status < 500 THEN " Client Error: " ELSE " Server Error: ",
      "reason", " for url: ", "url">>

\* The body of GAMEClient.make_request on a response.
MakeRequestOutcome(status, body) ==
    IF status < 400
    THEN IF body.json THEN Handled(FALSE, NoError, body.data_id)
         ELSE Handled(TRUE, ResponseError("APIError", <<"Request failed: ", "JSONDecodeError">>, 0), None)
    ELSE IF status = 401
    THEN Handled(TRUE, ResponseError("AuthenticationError", <<"Authentication failed">>, 0), None)
    ELSE IF status = 422
    THEN Handled(TRUE, ResponseError("ValidationError", <<"Invalid request data">>, 0), None)
    ELSE Handled(TRUE,
            ResponseError("APIError", <<"API request failed: ">> \o HTTPErrorText(status), 0),
            None)

\* AutonomousAgentClient._get_response_body (create_session, next_task,
\* start_task and report_function_result check the status the same way).
AutonomousOutcome(status, body) ==
    IF status # 200
    THEN Handled(TRUE,
            ResponseError("ValueError",
                <<"Failed to get response body (status ", ToString(status),
                  "). Response: ", body.text>>, 0),
            None)
    ELSE IF ~body.json
    THEN Handled(TRUE, ResponseError("JSONDecodeError", <<"Expecting value">>, 0), None)
    ELSE Handled(FALSE, NoError, body.data_id)

Received(client, status, body, handled) ==
    [client |-> client, status |-> status, body |-> body, handled |-> handled]

NoResponse == Received("", 0, Body("", FALSE, None, None), Handled(FALSE, NoError, None))

ResponsesInit == httpLast = NoResponse

\* utils.post(base_url, api_key, endpoint, data) gets a response
ResponseToPost ==
    \E status \in HttpStatuses, body \in Bodies, name \in {"Test Agent", "default_id"} :
        httpLast' = Received("utils.post", status, body, PostOutcome(status, body, name))

\* GAMEClient.make_request gets a response (one attempt)
ResponseToMakeRequest ==
    \E status \in HttpStatuses, body \in Bodies :
        httpLast' = Received("make_request", status, body, MakeRequestOutcome(status, body))

\* a method of AutonomousAgentClient gets a response
ResponseToAutonomousClient ==
    \E status \in HttpStatuses, body \in Bodies :
        httpLast' = Received("AutonomousAgentClient", status, body,
                             AutonomousOutcome(status, body))

----------------------------------------------------------------------------
(* The calls of Function.execute *)

FnIds == {None, "a1", "a2"}

\* The names of the Arguments a Function declares (self.args).
DeclaredNames == SUBSET ArgNames

\* A call: the Function's executable and declared names, and the keywords.
Calls ==
    [exe : Executables, declared : DeclaredNames, fn_id : FnIds,
     args_kind : {"dict"}, args : ArgDicts]
    \cup [exe : Executables, declared : DeclaredNames, fn_id : FnIds,
          args_kind : {"absent", "none"}, args : {EmptyDict}]

NoCall == [exe |-> [kind |-> "none", msg |-> <<>>], declared |-> {}, fn_id |-> None,
           args_kind |-> "absent", args |-> EmptyDict]
NoPrev == [call |-> NoCall, outcome |-> NoOutcome, arg |-> ""]

\* No call is under way (the other specifications leave the Function here).
FnIdle ==
    /\ fnCall = NoCall
    /\ fnOutcome = NoOutcome
    /\ fnPrev = NoPrev

\* The inputs of one call, drawn from the bounded sets.
FnInit ==
    /\ fnCall \in Calls
    /\ fnOutcome = NoOutcome
    /\ fnPrev = NoPrev

\* fn.execute(fn_id=..., args=...)
FunctionExecute ==
    /\ fnOutcome = NoOutcome
    /\ fnOutcome' = Execute(fnCall.exe, fnCall)
    /\ UNCHANGED <<fnCall, fnPrev>>

\* The last call again, with the raw value of argument n wrapped as {"value": X}.
FunctionExecuteWrapped(n) ==
    /\ fnOutcome # NoOutcome
    /\ fnCall.args_kind = "dict"
    /\ n \in DOMAIN fnCall.args
    /\ Wrap(fnCall.args[n]) \in Values
    /\ LET c == [fnCall EXCEPT !.args[n] = Wrap(@)]
       IN  /\ fnCall' = c
           /\ fnOutcome' = Execute(c.exe, c)
           /\ fnPrev' = [call |-> fnCall, outcome |-> fnOutcome, arg |-> n]

vars == <<fnVars, rqVars, v2Vars, ownerVars, sessVars, httpLast, exported, resultSent, wagent>>

\* The variables of all components but one.
exceptFn == <<rqVars, v2Vars, ownerVars, sessVars, httpLast, exported, resultSent, wagent>>
exceptRq == <<fnVars, v2Vars, ownerVars, sessVars, httpLast, exported, resultSent, wagent>>
exceptV2 == <<fnVars, rqVars, ownerVars, sessVars, httpLast, exported, resultSent, wagent>>
exceptOwners == <<fnVars, rqVars, v2Vars, sessVars, httpLast, exported, resultSent, wagent>>
exceptSession == <<fnVars, rqVars, v2Vars, ownerVars, httpLast, exported, resultSent, wagent>>
exceptReceived == <<fnVars, rqVars, v2Vars, ownerVars, sessVars, exported, resultSent, wagent>>
exceptV2Run == <<fnVars, rqVars, ownerVars, sessVars, httpLast, exported, resultSent, wagent>>
exceptReport == <<fnVars, rqVars, v2Vars, ownerVars, sessVars, httpLast, exported, wagent>>
exceptWorkerAgent == <<fnVars, rqVars, v2Vars, ownerVars, sessVars, httpLast, exported, resultSent>>
exceptExport == <<fnVars, rqVars, v2Vars, ownerVars, sessVars, httpLast, resultSent, wagent>>
exceptAgent == <<fnVars, rqVars, v2Vars, httpLast, exported, resultSent, wagent>>

----------------------------------------------------------------------------
(* Specifications *)

InitFunction == FnInit /\ RqIdle /\ V2Init /\ OwnersInit /\ SessionInit /\ ResponsesInit /\ ExportIdle /\ ReportIdle /\ WorkerAgentIdle

NextFunction ==
    \/ FunctionExecute /\ UNCHANGED exceptFn
    \/ \E n \in ArgNames : FunctionExecuteWrapped(n) /\ UNCHANGED exceptFn

SpecFunction == InitFunction /\ [][NextFunction]_vars

InitClient == FnIdle /\ RqIdle /\ V2Init /\ OwnersInit /\ SessionInit /\ ResponsesInit /\ ExportIdle /\ ReportIdle /\ WorkerAgentIdle

NextClient ==
    \/ MakeRequest /\ UNCHANGED exceptRq
    \/ Attempt /\ UNCHANGED exceptRq
    \/ RequestOver /\ UNCHANGED exceptRq

SpecClient == InitClient /\ [][NextClient]_vars

InitAgentV2 == FnIdle /\ RqIdle /\ V2Init /\ OwnersInit /\ SessionInit /\ ResponsesInit /\ ExportIdle /\ ReportIdle /\ WorkerAgentIdle

NextAgentV2 == AgentV2Step /\ UNCHANGED exceptV2

SpecAgentV2 == InitAgentV2 /\ [][NextAgentV2]_vars

InitAgentV2Run == FnIdle /\ RqIdle /\ V2Init /\ OwnersInit /\ SessionInit /\ ResponsesInit /\ ExportIdle /\ ReportIdle /\ WorkerAgentIdle

NextAgentV2Run == AgentV2TracedStep /\ UNCHANGED exceptV2Run

SpecAgentV2Run == InitAgentV2Run /\ [][NextAgentV2Run]_vars

InitOwners == FnIdle /\ RqIdle /\ V2Init /\ OwnersInit /\ SessionInit /\ ResponsesInit /\ ExportIdle /\ ReportIdle /\ WorkerAgentIdle

NextOwners ==
    \/ AgentInit /\ UNCHANGED exceptOwners
    \/ AgentAddWorker /\ UNCHANGED exceptOwners
    \/ AgentCompile /\ UNCHANGED exceptOwners
    \/ WorkerInit /\ UNCHANGED exceptOwners
    \/ WorkerExecute /\ UNCHANGED exceptOwners

SpecOwners == InitOwners /\ [][NextOwners]_vars

InitSession == FnIdle /\ RqIdle /\ V2Init /\ OwnersInit /\ SessionInit /\ ResponsesInit /\ ExportIdle /\ ReportIdle /\ WorkerAgentIdle

NextSession ==
    \/ SessionSetResult /\ UNCHANGED exceptSession
    \/ SessionResetCall /\ UNCHANGED exceptSession

SpecSession == InitSession /\ [][NextSession]_vars

InitDrivers == FnIdle /\ RqIdle /\ V2Init /\ DriversInit /\ SessionInit /\ ResponsesInit /\ ExportIdle /\ ReportIdle /\ WorkerAgentIdle

NextDrivers ==
    \/ WorkerSetTask /\ UNCHANGED exceptOwners
    \/ WorkerStep /\ UNCHANGED exceptOwners
    \/ WorkerRunStart /\ UNCHANGED exceptOwners
    \/ WorkerRunStep /\ UNCHANGED exceptOwners
    \/ AgentGetAction /\ UNCHANGED exceptOwners

SpecDrivers == InitDrivers /\ [][NextDrivers]_vars

InitAgent == FnIdle /\ RqIdle /\ V2Init /\ OwnersInit /\ SessionInit /\ ResponsesInit /\ ExportIdle /\ ReportIdle /\ WorkerAgentIdle

NextAgent ==
    \/ AgentNew /\ UNCHANGED exceptAgent
    \/ AgentLifeAddWorker /\ UNCHANGED exceptAgent
    \/ AgentReset /\ UNCHANGED exceptAgent
    \/ AgentLifeCompile /\ UNCHANGED exceptAgent
    \/ AgentStepCall /\ UNCHANGED exceptAgent
    \/ AgentHoldResult /\ UNCHANGED exceptAgent

SpecAgent == InitAgent /\ [][NextAgent]_vars

InitAgentRun == FnIdle /\ RqIdle /\ V2Init /\ DriversInit /\ SessionInit /\ ResponsesInit /\ ExportIdle /\ ReportIdle /\ WorkerAgentIdle

NextAgentRun ==
    \/ AgentRunStart /\ UNCHANGED exceptAgent
    \/ AgentRunStep /\ UNCHANGED exceptAgent
    \/ AgentRunHoldResult /\ UNCHANGED exceptAgent
    \/ AgentRunReset /\ UNCHANGED exceptAgent

SpecAgentRun == InitAgentRun /\ [][NextAgentRun]_vars

InitWorkerAgent == FnIdle /\ RqIdle /\ V2Init /\ OwnersInit /\ SessionInit /\ ResponsesInit /\ ExportIdle /\ ReportIdle /\ WorkerAgentInit

NextWorkerAgent ==
    \/ WorkerSendMessage /\ UNCHANGED exceptWorkerAgent
    \/ WorkerClientCall /\ UNCHANGED exceptWorkerAgent

SpecWorkerAgent == InitWorkerAgent /\ [][NextWorkerAgent]_vars

InitLayer == FnIdle /\ RqIdle /\ V2Init /\ DriversInit /\ SessionInit /\ ResponsesInit /\ ExportIdle /\ ReportIdle /\ WorkerAgentInit

NextLayer ==
    \/ LayerWorkerSetTask /\ UNCHANGED exceptOwners
    \/ LayerWorkerStep /\ UNCHANGED exceptOwners
    \/ LayerAgentStep /\ UNCHANGED exceptV2Run
    \/ LayerSendMessage /\ UNCHANGED exceptWorkerAgent
    \/ LayerClientCall /\ UNCHANGED exceptWorkerAgent

SpecLayer == InitLayer /\ [][NextLayer]_vars

InitSchema == FnIdle /\ RqIdle /\ V2Init /\ OwnersInit /\ SessionInit /\ ResponsesInit /\ ExportInit /\ ReportIdle /\ WorkerAgentIdle

NextSchema ==
    \/ FunctionDefTwice /\ UNCHANGED exceptExport
    \/ SchemaSent /\ UNCHANGED exceptExport

SpecSchema == InitSchema /\ [][NextSchema]_vars

InitReport == FnIdle /\ RqIdle /\ V2Init /\ OwnersInit /\ SessionInit /\ ResponsesInit /\ ExportIdle /\ ReportInit /\ WorkerAgentIdle

NextReport ==
    \/ WorkerSendsResult /\ UNCHANGED exceptReport
    \/ ClientReportsResult /\ UNCHANGED exceptReport

SpecReport == InitReport /\ [][NextReport]_vars

InitResponses == FnIdle /\ RqIdle /\ V2Init /\ OwnersInit /\ SessionInit /\ ResponsesInit /\ ExportIdle /\ ReportIdle /\ WorkerAgentIdle

NextResponses ==
    \/ ResponseToPost /\ UNCHANGED exceptReceived
    \/ ResponseToMakeRequest /\ UNCHANGED exceptReceived
    \/ ResponseToAutonomousClient /\ UNCHANGED exceptReceived

SpecResponses == InitResponses /\ [][NextResponses]_vars

----------------------------------------------------------------------------
(* Claims about Function.execute, under SpecFunction *)

FnExecuted == fnOutcome # NoOutcome

\* C1: Function.execute never raises: whatever fn_id (a string, or absent),
\* args and executable, the call returns a FunctionResult.
C1_ExecuteNeverRaises == FnExecuted => ~fnOutcome.raised

\* C2: when the executable raises an exception with message M, execute returns
\* a FunctionResult with action_status FAILED, a non-empty feedback_message
\* that contains M, and info = {}.
C2_RaiseBecomesFailedResult ==
    (FnExecuted /\ fnOutcome.invoked /\ fnCall.exe.kind = "raises") =>
        /\ ~fnOutcome.raised
        /\ fnOutcome.result.action_status = FAILED
        /\ fnOutcome.result.feedback_message # <<>>
        /\ Contains(fnOutcome.result.feedback_message, fnCall.exe.msg)
        /\ fnOutcome.result.info = EmptyDict

\* The raw value X of the re-issued argument in the earlier call, which the
\* last call supplied as {"value": X}.
BareValue == fnPrev.call.args[fnPrev.arg]

UnwrapAgrees ==
    /\ fnCall.args[fnPrev.arg] = Wrap(BareValue)
    /\ fnPrev.outcome.invoked /\ fnOutcome.invoked
    /\ fnPrev.outcome.received[fnPrev.arg] = BareValue
    /\ fnOutcome.received[fnPrev.arg] = BareValue
    /\ fnOutcome = fnPrev.outcome

HoldsValueKey(x) == IsDict(x) /\ Head(x) = "value"

C19_ActionIdEchoed ==
    (FnExecuted /\ ~fnOutcome.raised) =>
        fnOutcome.result.action_id = fnCall.fn_id

C19_Witness ==
    /\ FnExecuted
    /\ fnCall.exe.kind = "raises"
    /\ fnCall.fn_id = "a2"
    /\ fnOutcome.result.action_status = FAILED
    /\ fnOutcome.result.action_id = "a2"

----------------------------------------------------------------------------
(* Claims about GameAPIClient.make_request, under SpecClient *)

\* The failures C6 speaks of: a 5xx response or a connection error.
IsServerOrConnectionFailure(a) ==
    \/ a.kind = "http" /\ a.status >= 500
    \/ a.kind = "ConnectionError"

\* The server fails the first k attempts that way and answers attempt k+1
\* with success.
FailsThenSucceeds(script, k) ==
    /\ k + 1 <= Len(script)
    /\ \A i \in 1..k : IsServerOrConnectionFailure(script[i])
    /\ IsSuccess(script[k + 1])

\* C6: if the first k attempts (k in 0..2) fail with a 5xx response or a
\* connection error and attempt k+1 succeeds, the request returns that
\* successful response and exactly k+1 attempts are made.
C6_RetryUntilSuccess ==
    (rqPc = "done") =>
        \A k \in 0..2 :
            FailsThenSucceeds(rqScript, k) =>
                /\ rqOutcome = AttemptReturn(rqScript[k + 1].body)
                /\ Len(rqCalls) = k + 1

\* Two 500s, then the success, returned after three attempts.
C6_Witness ==
    /\ rqPc = "done"
    /\ Len(rqCalls) = 3
    /\ rqCalls[1].status = 500 /\ rqCalls[2].status = 500
    /\ rqOutcome = AttemptReturn("data1")

IsRejection(a) == a.kind = "http" /\ a.status \in {401, 422}

RejectionError(a) ==
    IF a.status = 401 THEN "AuthenticationError" ELSE "ValidationError"

\* C7: a request answered with 401 or 422 is never retried: that attempt is
\* the last, the caller receives AuthenticationError (401) or ValidationError
\* (422), and when the first answer is one of them exactly one attempt is made.
C7_RejectionNotRetried ==
    /\ \A i \in 1..Len(rqCalls) :
            IsRejection(rqCalls[i]) =>
                /\ i = Len(rqCalls)
                /\ rqPc = "done"
                /\ rqOutcome.raised
                /\ rqOutcome.exc = RejectionError(rqCalls[i])
    /\ (rqPc = "done" /\ IsRejection(rqScript[1])) => Len(rqCalls) = 1

\* A 401 ended the request at its first attempt.
C7_Witness ==
    /\ rqPc = "done"
    /\ Len(rqCalls) = 1
    /\ rqCalls[1].status = 401
    /\ rqOutcome.exc = "AuthenticationError"

\* Every attempt made met a transient failure, and no attempt is left.
Exhausted ==
    /\ rqPc = "done"
    /\ Len(rqCalls) = MaxAttempts
    /\ \A i \in 1..Len(rqCalls) : IsTransient(rqCalls[i])

Idempotent(method) == method \in {"GET", "PUT", "DELETE"}

\* The failures the retry policy is stated for: connection error, 5xx, 429.
IsTransportTransient(a) ==
    \/ a.kind \in TransportFailures
    \/ a.kind = "http" /\ (a.status >= 500 \/ a.status = 429)

\* C18: a request gets a second or third attempt only when its method is
\* idempotent and every attempt before the last failed with a connection
\* error, a 5xx or a 429; a request of a non-idempotent method, and a request
\* that failed in another way, gets one attempt.
C18_RetryOnlyIdempotentTransient ==
    (rqPc = "done" /\ Len(rqCalls) > 1) =>
        /\ Idempotent(rqMethod)
        /\ \A i \in 1..(Len(rqCalls) - 1) : IsTransportTransient(rqCalls[i])

----------------------------------------------------------------------------
(* Claims about the task-driven Agent, under SpecAgentV2 *)

\* C5: when the planner answers a step with a step failure, in Idle,
\* TaskPending or TaskRunning, step() returns without raising, executes no
\* function and leaves the driver state as it was, so that the next step()
\* sends the request of that same state again.
C5_StepFailureIsContained ==
    (v2Last.stepped /\ v2Last.response.type = "step_failure") =>
        /\ v2Last.outcome = "returned"
        /\ ~v2Last.executed
        /\ v2State = v2Last.before
        /\ V2Request(v2State) = v2Last.request

\* A step failure met while reporting a function result.
C5_Witness ==
    /\ v2Last.stepped
    /\ v2Last.response.type = "step_failure"
    /\ v2Last.before.tag = "TaskRunning"
    /\ v2Last.request = "report_function_result"

----------------------------------------------------------------------------
(* Claims about the construction of Agent and Worker, Agent.compile and
   Worker.execute_function, checked under SpecOwners *)

SeedIsMapping(state_fn) == IsMappingState(StateFn(state_fn, NoResult, NoState))

\* C9: constructing an Agent or a Worker with an empty credential, or with a
\* state-update function whose seed is no mapping, fails before any request
\* is sent to the planner; the credential is checked before the seed call
\* (no call of the state-update function), and the seed is validated before
\* the registration (one call, no request).
C9_ConstructionFailsBeforeRemote ==
    (last.op \in {"Agent.__init__", "Worker.__init__"}) =>
        /\ (last.api_key = "") =>
                /\ last.exc = "ValueError"
                /\ last.seed_calls = 0
                /\ last.sent = <<>>
                /\ Len(remoteLog) = last.log_before
        /\ (last.api_key # "" /\ ~SeedIsMapping(last.state_fn)) =>
                /\ last.exc \in {"ValidationError", "TypeError"}
                /\ last.seed_calls = 1
                /\ last.sent = <<>>
                /\ Len(remoteLog) = last.log_before

C9_Witness ==
    /\ last.op = "Agent.__init__"
    /\ last.api_key # ""
    /\ last.name # ""
    /\ ~SeedIsMapping(last.state_fn)
    /\ last.exc = "ValidationError"
    /\ last.log_before > 0
    /\ Len(remoteLog) = last.log_before

\* C10: Agent.compile() with no Worker configured fails with a configuration
\* error and sends no worker-registration request; with one or more Workers
\* configured it registers exactly those Workers in one request.
C10_CompileRegistersWorkers ==
    (last.op = "compile") =>
        IF last.workers_before = {}
        THEN last.exc = "ValueError" /\ last.sent = <<>>
        ELSE /\ Len(last.sent) = 1
             /\ last.sent[1].endpoint = "/v2/maps"
             /\ last.sent[1].name = last.workers_before


\* C20: a construction that succeeds has called the state-update function
\* exactly once, with function_result None and current_state None, and the
\* mapping it returned is the owner's initial state.
C20_SeededWithNoneNone ==
    (last.op \in {"Agent.__init__", "Worker.__init__"} /\ last.exc = "") =>
        /\ last.seed_calls = 1
        /\ last.state_arg = NoResult
        /\ last.state_before = NoState
        /\ last.op = "Agent.__init__" =>
                agent.agent_state = StateFn(last.state_fn, NoResult, NoState)
        /\ last.op = "Worker.__init__" =>
                worker.state = StateFn(last.state_fn, NoResult, NoState)

----------------------------------------------------------------------------
(* Claims about Session, under SpecSession *)

\* C11: whatever function_result the Session held (none or any
\* FunctionResult), after reset() its id differs from the id it had before
\* and its function_result is None.
C11_ResetRenewsIdAndClearsResult ==
    (sessLast.op = "reset") =>
        /\ session.id # sessLast.id
        /\ session.function_result = NoResult

C11_Witness ==
    /\ sessLast.op = "reset"
    /\ sessLast.function_result \in SessionResults
    /\ sessLast.function_result.action_status = FAILED
    /\ sessLast.id > 1
    /\ session.function_result = NoResult
----------------------------------------------------------------------------
(* Claims about the driven Worker and Agent, under SpecDrivers *)

StepOps == {"step", "run: step"}

\* The last operation was a step in which a function was executed and gave
\* a FunctionResult.
StepExecuted == last.op \in StepOps /\ last.out # NoOutcome /\ ~last.out.raised

C13_WaitMakesIdleAndIdleRejectsStep ==
    /\ (last.op \in StepOps /\ last.exc = "" /\ last.directive.action_type = "wait") =>
        /\ worker.submission_id = None
        /\ worker.function_result = NoResult
    /\ (last.op = "step" /\ last.before.submission_id = None) =>
        /\ last.exc = "ValueError" /\ last.msg = "No task set"
        /\ last.sent = <<>>
        /\ Len(remoteLog) = last.log_before
        /\ worker = last.before
    /\ (last.op = "step" /\ last.before.submission_id # None) =>
        Len(last.sent) = 1
    /\ (last.op = "set_task" /\ last.exc = "") => worker.submission_id # None

C13_Witness ==
    /\ last.op = "step"
    /\ last.msg = "No task set"
    /\ last.sent = <<>>
    /\ Len(remoteLog) = 4
    /\ remoteLog[Len(remoteLog)] = NextSent[1]

\* C14: a step that receives continue_function or go_to raises ValueError
\* "Unexpected action type"; no executable runs and the Worker is unchanged.
C14_UnexpectedActionTypeFails ==
    (last.op \in StepOps
        /\ last.directive.action_type \in ActionTypes \ {"call_function", "wait"}) =>
        /\ last.exc = "ValueError" /\ last.msg = "Unexpected action type"
        /\ last.out = NoOutcome
        /\ last.state_calls = 0
        /\ worker = last.before

C14_Witness ==
    /\ last.op = "step"
    /\ last.directive.action_type = "go_to"
    /\ last.exc = "ValueError"
    /\ last.before.submission_id = "sub1"

\* C15: a step whose call_function directive names a function that is not in
\* the action space raises (KeyError); no executable runs, the state-update
\* function is not called and the Worker is unchanged.
C15_AbsentFunctionIsSignalled ==
    (last.op \in StepOps
        /\ last.directive.action_type = "call_function"
        /\ last.directive.has_args
        /\ last.directive.fn_name \notin DOMAIN WorkerActionSpace) =>
        /\ last.exc = "KeyError"
        /\ last.out = NoOutcome
        /\ last.state_calls = 0
        /\ worker = last.before

C15_Witness ==
    /\ last.op = "step"
    /\ last.directive.fn_name = "missing"
    /\ last.exc = "KeyError"
    /\ last.before.function_result # NoResult

\* C16: run(task) makes one set_task request and then only next-action
\* requests; after a step of run, run has returned exactly when that step
\* received WAIT, and then the Worker has no submission id; after a step that
\* executed a call_function directive run is still running.
C16_RunReturnsExactlyOnWait ==
    /\ (last.op = "run: set_task") =>
        /\ Len(last.sent) = 1
        /\ last.sent[1].endpoint = "/v2/agents/{agent_id}/tasks"
        /\ runPc = (IF last.exc = "" THEN "running" ELSE "raised")
    /\ (last.op = "run: step") =>
        /\ last.sent = NextSent
        /\ (runPc = "returned") <=>
                (last.exc = "" /\ last.directive.action_type = "wait")
        /\ (runPc = "returned") => worker.submission_id = None
        /\ (last.exc = "" /\ last.directive.action_type = "call_function") =>
                runPc = "running"
        /\ (last.exc # "") <=> (runPc = "raised")

C16_Witness ==
    /\ last.op = "run: step"
    /\ runPc = "returned"
    /\ last.directive.action_type = "wait"
    /\ last.before.function_result # NoResult
    /\ worker.submission_id = None
----------------------------------------------------------------------------
(* Claims about HTTP responses, under SpecResponses *)

\* C17: every response whose status is not 2xx makes the planner client
\* raise an error that carries the HTTP status (as status_code or in the
\* message) and the response body; such a response is never handed to the
\* caller as a result.
C17_Non2xxRaisesWithStatusAndBody ==
    (httpLast.client # "" /\ httpLast.status \notin 200..299) =>
        /\ httpLast.handled.raised
        /\ \/ httpLast.handled.error.status_code = httpLast.status
           \/ Contains(httpLast.handled.error.message, <<ToString(httpLast.status)>>)
        /\ Contains(httpLast.handled.error.message, <<httpLast.body.text>>)

----------------------------------------------------------------------------
(* Claims about one Agent from its construction on, under SpecAgent *)

\* C21: a successful Agent construction sends exactly one registration
\* request, carrying the supplied name, description and goal; the id the
\* planner returns becomes agent_id and the seed state becomes agent_state;
\* and once the Agent is constructed no operation (add_worker, reset,
\* compile, step) sends a registration request.
C21_RegisteredExactlyOnce ==
    /\ [](last.op = "Agent.__init__" /\ last.exc = "" =>
            /\ last.sent = <<RegistrationCall(last.name, last.description, last.goal)>>
            /\ agent.name = last.name
            /\ agent.agent_id = post(last.name, last.answer).id
            /\ agent.agent_state = StateFn(last.state_fn, NoResult, NoState))
    /\ [][agent.constructed =>
            \A i \in (Len(remoteLog) + 1) .. Len(remoteLog') :
                remoteLog'[i].endpoint # "/v2/agents"]_vars

\* A constructed Agent that has got a worker, has been reset, and has just
\* sent the request of a step.
C21_Witness ==
    /\ agent.constructed /\ agent.agent_goal = "Other Goal"
    /\ DOMAIN agent.workers # {}
    /\ uuids >= 3
    /\ last.op = "Agent.step" /\ last.sent # <<>>

----------------------------------------------------------------------------
(* Claims about the export of Function definitions, under SpecSchema *)

SchemaKeys == {"fn_name", "fn_description", "args", "hint"}

----------------------------------------------------------------------------
(* Claims about the steps of the task-driven Agent, under SpecAgentV2 and
   SpecAgentV2Run *)

\* C23: after a step that ended with a StepFailed signal, in whatever driver
\* state, the next step() starts from Idle: it requests the next task.
C23_StepFailureRestartsFromIdle ==
    (v2Last.stepped /\ v2Last.response.type = "step_failure") =>
        /\ v2Last.outcome = "returned"
        /\ V2Request(v2State) = "next_task"

\* The call_function answers that were handled: those that answered
\* start_task or report_function_result and name a Function of the action space.
CallsHandled ==
    {i \in 1..Len(v2Run.trace) :
        /\ v2Run.trace[i].type = "call_function"
        /\ v2Run.trace[i].present
        /\ v2Run.trace[i].request # "next_task"}

\* C24: each call_function directive invokes the named executable exactly
\* once, with the directive's arguments (a {"value": X} unwrapped to X); a
\* finish_task directive returns the driver to Idle, with no pending task;
\* and after three steps answered start_task, call_function, finish_task the
\* executable has run exactly once and the Agent is Idle.
C24_CallInvokesOnceAndFinishReturnsToIdle ==
    /\ v2Run.invocations = Cardinality(CallsHandled)
    /\ (Len(v2Run.trace) \in CallsHandled) =>
            /\ v2Last.out.invoked
            /\ v2Last.out.received = ProcessArgs(v2Last.response.fn_arguments)
    /\ (v2Last.stepped /\ v2Last.response.type = "finish_task"
            /\ v2Last.request # "next_task") =>
            v2State = IdleState
    /\ (/\ Len(v2Run.trace) = 3
        /\ v2Run.trace[1].type = "start_task"
        /\ v2Run.trace[2].type = "call_function" /\ v2Run.trace[2].present
        /\ v2Run.trace[3].type = "finish_task") =>
            /\ v2Run.invocations = 1
            /\ v2State = IdleState

\* Three steps answered start_task, call_function get_weather(city="Paris"),
\* finish_task.
C24_Witness ==
    /\ Len(v2Run.trace) = 3
    /\ v2Run.trace[1].type = "start_task"
    /\ v2Run.trace[2].type = "call_function"
    /\ v2Run.trace[3].type = "finish_task"
    /\ v2Run.executed.action_status = DONE
    /\ v2Run.executed.info = [city |-> <<"Paris">>]
    /\ v2State = IdleState

\* C26: the task-driven Agent starts Idle, and a step changes the driver
\* state only from Idle to TaskPending on a start_task answer, from
\* TaskPending or TaskRunning to TaskRunning(the result of the function just
\* executed) on a call_function answer, and from TaskPending or TaskRunning
\* to Idle on a finish_task answer.
C26_DriverTransitions ==
    /\ ~v2Last.stepped => v2State = IdleState
    /\ v2Last.stepped =>
        \/ v2State = v2Last.before
        \/ /\ v2Last.before = IdleState
           /\ v2State = TaskPendingState
           /\ v2Last.response.type = "start_task"
        \/ /\ v2Last.before.tag \in {"TaskPending", "TaskRunning"}
           /\ v2Last.response.type = "call_function"
           /\ v2Last.out.invoked
           /\ v2State = TaskRunningState(v2Last.out.result)
        \/ /\ v2Last.before.tag \in {"TaskPending", "TaskRunning"}
           /\ v2Last.response.type = "finish_task"
           /\ v2State = IdleState

\* A step from TaskRunning to TaskRunning with another result.
C26_Witness ==
    /\ v2Last.stepped
    /\ v2Last.before.tag = "TaskRunning"
    /\ v2State.tag = "TaskRunning"
    /\ v2State.result.action_id # v2Last.before.result.action_id

----------------------------------------------------------------------------
(* Further claims about Function.execute, under SpecFunction *)

\* C25: the executable is passed values only for the Argument names the
\* Function declares; a key of the raw arguments that is no declared name is
\* not forwarded.
C25_OnlyDeclaredArgumentsForwarded ==
    (fnOutcome # NoOutcome /\ fnOutcome.invoked) =>
        DOMAIN fnOutcome.received = DOMAIN fnCall.args \cap fnCall.declared

----------------------------------------------------------------------------
(* Further claims about the driven Worker, under SpecDrivers *)

\* C28: the first next-action request of a task carries the placeholder
\* result (action_id "", status DONE), never a FunctionResult of an earlier
\* task; a Worker without an active task retains no function result.
C28_NoResultCarriedAcrossTasks ==
    /\ (last.op \in {"set_task", "run: set_task"} /\ last.exc = "") =>
            /\ StepRequest(worker).action_id = ""
            /\ StepRequest(worker).action_status = DONE
    /\ (worker.constructed /\ worker.submission_id = None) =>
            worker.function_result = NoResult

\* C29: a set_task that fails signals an error and leaves the Worker's
\* submission id, function result and state as they were.
C29_FailedSetTaskChangesNothing ==
    (last.op \in {"set_task", "run: set_task"} /\ last.exc # "") =>
        worker = last.before

----------------------------------------------------------------------------
(* Further claims about one Agent, under SpecAgent *)

\* C30: a FunctionResult held by the Agent's Session is passed to the
\* state-update function and sent to the planner as function_result in one
\* step, and is not held for the steps after it.
C30_ResultFoldedAndSentInOneStep ==
    (last.op = "Agent.step" /\ last.state_arg # NoResult) =>
        /\ last.state_calls = 1
        /\ last.sent # <<>>
        /\ session.function_result # last.state_arg

\* C33: a Worker.step that fails (no task set, an error of the planner
\* call, CALL_FUNCTION without function information or naming an unknown
\* function, an unexpected action type) leaves the Worker's state,
\* submission id and function result as they were, and calls neither an
\* executable nor the state-update function.
C33_FailedStepChangesNothing ==
    (last.op \in StepOps /\ last.exc # "") =>
        /\ worker = last.before
        /\ last.out = NoOutcome
        /\ last.state_calls = 0

\* A step of a Worker that holds a result, answered with an action type
\* the step does not handle.
C33_Witness ==
    /\ last.op = "step" /\ last.exc = "ValueError"
    /\ last.msg = "Unexpected action type"
    /\ worker.submission_id # None
    /\ worker.function_result # NoResult
    /\ worker.state.seen = "a1"

----------------------------------------------------------------------------
(* Further claims about the task-driven Agent, under SpecAgentV2 *)

\* C34: a step() of the task-driven Agent that fails otherwise than by a
\* step failure of the planner (a non-200 answer, a call_function naming a
\* function the action space does not have) raises to the caller and leaves
\* the driver state as it was, so that the next step() sends the same kind
\* of request.
C34_OtherFailuresPropagateAndKeepState ==
    v2Last.stepped =>
        /\ v2Last.response.type = "http_error" => v2Last.outcome = "ValueError"
        /\ (/\ v2Last.response.type = "call_function"
            /\ v2Last.before.tag # "Idle"
            /\ v2Last.response.fn_name \notin DOMAIN V2ActionSpace) =>
                v2Last.outcome = "KeyError"
        /\ v2Last.outcome # "returned" =>
                /\ ~v2Last.executed
                /\ v2State = v2Last.before
                /\ V2Request(v2State) = v2Last.request

\* A non-200 answer to the report of a function result.
C34_Witness ==
    /\ v2Last.stepped
    /\ v2Last.response.type = "http_error"
    /\ v2Last.outcome = "ValueError"
    /\ v2Last.before.tag = "TaskRunning"
    /\ v2State = v2Last.before

----------------------------------------------------------------------------
(* Claims about the result field of the requests, under SpecReport *)

ResultFieldKeys == {"action_id", "action_status", "feedback_message"}

\* C35: the result field that Worker._get_action and
\* report_function_result send holds the action id, the status and the
\* feedback message of the FunctionResult and not its info: two runs whose
\* results differ in info alone send the same field.
C35_InfoIsNotSent ==
    resultSent.by # "" =>
        /\ DOMAIN resultSent.sent_a = ResultFieldKeys
        /\ \A k \in ResultFieldKeys : resultSent.sent_a[k] = resultSent.a[k]
        /\ (\A k \in ResultFieldKeys : resultSent.a[k] = resultSent.b[k]) =>
                resultSent.sent_a = resultSent.sent_b

\* Two runs whose results differ in info alone have sent their requests.
C35_Witness ==
    /\ resultSent.by = "Worker._get_action"
    /\ \A k \in ResultFieldKeys : resultSent.a[k] = resultSent.b[k]
    /\ resultSent.a.info = [token |-> <<"secret">>]
    /\ resultSent.b.info = EmptyDict
    /\ resultSent.sent_a = resultSent.sent_b

----------------------------------------------------------------------------
(* Claims about Agent.run, under SpecAgentRun *)

----------------------------------------------------------------------------
(* Claims about the WorkerAgent, under SpecWorkerAgent *)

\* The executions that the i-th response has caused.
ExecutionsOf(i) ==
    {k \in 1..Len(wagent.executions) : wagent.executions[k].response = i}

\* The requests that the send_message call of the i-th request made after it.
LaterRequestsOf(i) ==
    {j \in (i + 1)..Len(wagent.requests) :
        wagent.requests[j].call = wagent.requests[i].call}

\* The report of the i-th response's result is the next request, or the one
\* the WorkerAgent is about to send.
ReportedNext(i) ==
    LET report == IF i < Len(wagent.requests) THEN wagent.requests[i + 1]
                  ELSE wagent.next
    IN  /\ i = Len(wagent.requests) => wagent.pc = "report"
        /\ report.kind = "report"
        /\ report.call = wagent.requests[i].call
        /\ report.fn_id = wagent.responses[i].fn_id

\* send_message has ended at the i-th response, in the given way.
EndedAt(i, pc, excs) ==
    /\ LaterRequestsOf(i) = {}
    /\ i = Len(wagent.responses) =>
            (wagent.pc = "message" /\ wagent.requests[i].call < wagent.calls)
            \/ (wagent.pc = pc /\ wagent.exc \in excs)

\* C36 as stated: every function-call response has one execution and one
\* report with its fn_id.
C36_EveryCallExecutedAndReported ==
    \A i \in 1..Len(wagent.responses) :
        wagent.responses[i].type = "call_function" =>
            Cardinality(ExecutionsOf(i)) = 1 /\ ReportedNext(i)

\* C36: in send_message a function-call response that names a Function of
\* the action space has one execution, of that Function, and one report
\* with its fn_id, which is the next request; one that names no Function of
\* the action space ends send_message with a KeyError, nothing executed or
\* reported; send_message returns on a final answer only, and a step
\* failure ends it with the exception "Step failed.".
C36_CallsOfTheActionSpaceExecutedAndReported ==
    /\ Len(wagent.responses) = Len(wagent.requests)
    /\ \A i \in 1..Len(wagent.responses) :
        LET response == wagent.responses[i]
        IN  CASE response.type = "call_function"
                    /\ response.fn_name \in DOMAIN WorkerAgentSpace ->
                    /\ Cardinality(ExecutionsOf(i)) = 1
                    /\ \A k \in ExecutionsOf(i) :
                            wagent.executions[k].fn_name = response.fn_name
                    /\ ReportedNext(i)
              [] response.type = "call_function"
                    /\ response.fn_name \notin DOMAIN WorkerAgentSpace ->
                    ExecutionsOf(i) = {} /\ EndedAt(i, "raised", {"KeyError"})
              [] response.type = "final_answer" ->
                    ExecutionsOf(i) = {} /\ EndedAt(i, "returned", {""})
              [] response.type = "step_failed" ->
                    ExecutionsOf(i) = {} /\ EndedAt(i, "raised", {"Step failed."})
              [] OTHER ->
                    /\ ExecutionsOf(i) = {}
                    /\ EndedAt(i, "raised", {"ValueError", "ValidationError"})
    /\ wagent.pc = "returned" =>
            wagent.responses[Len(wagent.responses)].type = "final_answer"

\* One send_message that executed two Functions, reported both results in
\* turn and returned on the final answer.
C36_Witness ==
    /\ wagent.pc = "returned"
    /\ wagent.calls = 1
    /\ Len(wagent.executions) = 2
    /\ Len(wagent.requests) = 3
    /\ wagent.requests[2].kind = "report" /\ wagent.requests[2].fn_id = "f1"
    /\ wagent.requests[3].kind = "report" /\ wagent.requests[3].fn_id = "f2"

----------------------------------------------------------------------------
(* Claims about the three drivers, under SpecLayer *)

\* Every step() of the task-driven Agent has made one client call.
AgentStepsAskOnce == v2Run.requests = Len(v2Run.trace)

\* No request of the WorkerAgent is repeated after a step failure: the
\* failure ends send_message with "Step failed." after one attempt.
WorkerAgentAttemptsOnce ==
    /\ wagent.attempts <= 1
    /\ wagent.exc = "Step failed." => wagent.attempts = 1 /\ wagent.pc = "raised"
    /\ \A i \in 1..Len(wagent.responses) :
            wagent.responses[i].type = "step_failed" => LaterRequestsOf(i) = {}

\* C32 as stated: every Worker.step has sent one request.
C32_EveryStepAsksExactlyOnce ==
    /\ last.op = "step" => Len(last.sent) = 1
    /\ AgentStepsAskOnce
    /\ WorkerAgentAttemptsOnce

\* C32: no driver repeats a request: a Worker.step with a task set sends
\* one request and one without a task sends none, every step() of the
\* task-driven Agent makes one client call also when the planner reports a
\* step failure, and a message or report call of the WorkerAgent makes one
\* attempt before it raises "Step failed.".
C32_NoDriverRetries ==
    /\ last.op = "step" =>
            Len(last.sent) = (IF last.before.submission_id = None THEN 0 ELSE 1)
    /\ AgentStepsAskOnce
    /\ WorkerAgentAttemptsOnce

\* The task-driven Agent has made two steps, the second answered with a
\* step failure, and two client calls.
C32_Witness ==
    /\ v2Last.stepped
    /\ v2Last.response.type = "step_failure"
    /\ Len(v2Run.trace) = 2
    /\ v2Run.requests = 2

====
